---- MODULE Spec2Model ----
(***************************************************************************)
(* A model of hd-canvas: the ColorBuffer float RGBA pixel buffer           *)
(* (src/unnamed/part_005, whose first 179 lines are src/src/core/          *)
(* ColorBuffer.ts) as a state machine over a heap of typed arrays.         *)
(*                                                                         *)
(* Numbers.  A JavaScript number is modelled as an exact rational <<n, d>> *)
(* in lowest terms with d > 0; arithmetic on numbers is exact.  Writing a  *)
(* number into a Float32Array rounds it to the nearest value with F32Bits  *)
(* significant bits, ties to even (Math.fround, with the 24-bit            *)
(* significand scaled down to F32Bits); writing it into a Float64Array     *)
(* keeps it.  NaN, infinities, overflow and subnormals are outside the     *)
(* model.                                                                  *)
(***************************************************************************)
EXTENDS Integers, Sequences, FiniteSets, TLC

\* ------------------------------------------------------------------ bounds
\* Largest width and height of a buffer.
MaxDim == 2
\* Calls made on the buffers in one run.
MaxOps == 2
\* Significant bits of a Float32Array element (24 in IEEE 754 binary32).
F32Bits == 3

\* ----------------------------------------------------------------- numbers
Abs(n) == IF n < 0 THEN -n ELSE n

RECURSIVE GCD(_, _)
GCD(a, b) == IF b = 0 THEN a ELSE GCD(b, a % b)

\* The rational n/d in lowest terms, d > 0.
Rat(n, d) ==
  LET g == GCD(Abs(n), Abs(d))
      s == IF d < 0 THEN -1 ELSE 1
  IN  <<(s * n) \div g, (s * d) \div g>>

Zero == Rat(0, 1)
One == Rat(1, 1)
RAdd(a, b) == Rat(a[1] * b[2] + b[1] * a[2], a[2] * b[2])
RSub(a, b) == Rat(a[1] * b[2] - b[1] * a[2], a[2] * b[2])
RMul(a, b) == Rat(a[1] * b[1], a[2] * b[2])
RDiv(a, b) == Rat(a[1] * b[2], a[2] * b[1])

\* m * 2^e for integers m, e.
Scaled(m, e) == IF e >= 0 THEN Rat(m * 2^e, 1) ELSE Rat(m, 2^(0 - e))

\* The positive rational n/d rounded to F32Bits significant bits, ties to
\* even: the significand is brought into [2^(F32Bits-1), 2^F32Bits) first.
RECURSIVE RoundSig(_, _, _)
RoundSig(n, d, e) ==
  IF n < 2^(F32Bits - 1) * d THEN RoundSig(2 * n, d, e - 1)
  ELSE IF n >= 2^F32Bits * d THEN RoundSig(n, 2 * d, e + 1)
  ELSE LET fl == n \div d
           rem == n % d
           m == IF 2 * rem > d \/ (2 * rem = d /\ fl % 2 = 1) THEN fl + 1 ELSE fl
       IN  Scaled(m, e)

\* Math.fround: the float32 nearest to v.
Fround(v) ==
  IF v[1] = 0 THEN Zero
  ELSE IF v[1] < 0 THEN RSub(Zero, RoundSig(0 - v[1], v[2], 0))
  ELSE RoundSig(v[1], v[2], 0)

\* ------------------------------------------------------------ typed arrays
\* A typed array is [kind |-> 32 or 64, elems |-> its elements]; the source's
\* zero-based index i is position i + 1 of elems.

\* The value an element of a `kind` array holds after v is written to it.
ToElem(kind, v) == IF kind = 32 THEN Fround(v) ELSE v


\* Fault: one element per pixel instead of four.
NewArrayOnePerPixel(depth, length) ==
  [kind |-> IF depth = 64 THEN 64 ELSE 32, elems |-> [k \in 1..(length \div 4) |-> Zero]]

\* new Float32Array(length) / new Float64Array(length): all zeros.
NewArray(depth, length) ==
  [kind |-> IF depth = 64 THEN 64 ELSE 32, elems |-> [k \in 1..length |-> Zero]]

\* arr[i] (read).
At(arr, i) == arr.elems[i + 1]

\* arr[i] = v.
StoreAt(arr, i, v) == [arr EXCEPT !.elems[i + 1] = ToElem(arr.kind, v)]

\* Fault: the view is the whole array.
SubarrayWhole(arr, begin, end) == arr

\* arr.subarray(begin, end), read as the values it views.
Subarray(arr, begin, end) ==
  [kind |-> arr.kind, elems |-> [k \in 1..(end - begin) |-> arr.elems[begin + k]]]

\* Fault: the offset is ignored and src lands at the start of dst.
ArraySetAtStart(dst, src, offset) ==
  [dst EXCEPT !.elems =
     [k \in 1..Len(dst.elems) |->
        IF k <= Len(src.elems) THEN ToElem(dst.kind, src.elems[k]) ELSE dst.elems[k]]]

\* dst.set(src, offset): every element of src converted to dst's element type.
ArraySet(dst, src, offset) ==
  [dst EXCEPT !.elems =
     [k \in 1..Len(dst.elems) |->
        IF k > offset /\ k <= offset + Len(src.elems)
        THEN ToElem(dst.kind, src.elems[k - offset])
        ELSE dst.elems[k]]]

\* ------------------------------------------------------------- ColorBuffer
\* A ColorBuffer object is [width, height, depth, data], data naming the
\* typed array of the heap that the object owns.  A method is an operator
\* from the heap h, the objects os and its arguments to its outcome:
\* whether it threw, the heap and the objects after it, and what it returned.
Modes == {"normal", "add", "multiply"}

Threw(h, os) == [threw |-> TRUE, heap |-> h, objs |-> os, ret |-> <<>>]
Done(h, os, ret) == [threw |-> FALSE, heap |-> h, objs |-> os, ret |-> ret]


\* Fault: the new buffer is given the newest existing array instead of its own.
AllocArrayShared(h) == Len(h)

\* The index the typed-array allocation of `new ColorBuffer` gets.
AllocArray(h) == Len(h) + 1

\* Number.isInteger(n), n a number.
IsInteger(n) == n[2] = 1

\* Fault: zero passes the dimension check.
InvalidDimensionBelowZero(n) == ~IsInteger(n) \/ n[1] < 0

\* The constructor's dimension check on width or height, n a number.
InvalidDimension(n) == ~IsInteger(n) \/ n[1] <= 0

\* new ColorBuffer(width, height, depth); width and height are numbers, depth
\* is <<>> when omitted.  The object keeps its dimensions as integers.
NewColorBuffer(h, os, width, height, depth) ==
  IF InvalidDimension(width) THEN Threw(h, os)
  ELSE IF InvalidDimension(height) THEN Threw(h, os)
  ELSE LET d == IF depth = <<>> THEN 32 ELSE depth[1]
           length == width[1] * height[1] * 4
           obj == [width |-> width[1], height |-> height[1], depth |-> d,
                   data |-> AllocArray(h)]
       IN  Done(Append(h, NewArray(d, length)), Append(os, obj), Len(os) + 1)


\* Fault: column 0 is rejected.
OutOfBoundsFromOne(o, x, y) == x <= 0 \/ x >= o.width \/ y < 0 \/ y >= o.height

\* offset(x, y): the bounds check, and the index it returns.
OutOfBounds(o, x, y) == x < 0 \/ x >= o.width \/ y < 0 \/ y >= o.height
Offset(o, x, y) == (y * o.width + x) * 4


\* Fault: green and blue are stored in each other's place.
StorePixelSwapped(arr, i, r, g, b, a) ==
  StoreAt(StoreAt(StoreAt(StoreAt(arr, i, r), i + 1, b), i + 2, g), i + 3, a)

\* The four stores of setPixel at index i.
StorePixel(arr, i, r, g, b, a) ==
  StoreAt(StoreAt(StoreAt(StoreAt(arr, i, r), i + 1, g), i + 2, b), i + 3, a)

\* setPixel(x, y, r, g, b, a); a is <<>> when omitted.
SetPixel(h, os, self, x, y, r, g, b, a) ==
  LET o == os[self]
      aa == IF a = <<>> THEN One ELSE a[1]
  IN  IF OutOfBounds(o, x, y) THEN Threw(h, os)
      ELSE Done([h EXCEPT ![o.data] = StorePixel(@, Offset(o, x, y), r, g, b, aa)],
                os, <<>>)

\* getPixel(x, y).
GetPixel(h, os, self, x, y) ==
  LET o == os[self]
      i == Offset(o, x, y)
      d == h[o.data]
  IN  IF OutOfBounds(o, x, y) THEN Threw(h, os)
      ELSE Done(h, os, <<At(d, i), At(d, i + 1), At(d, i + 2), At(d, i + 3)>>)

\* The switch on the blend mode: one channel of the mixed colour.
Blended(mode, dst, src) ==
  CASE mode = "normal" -> src
    [] mode = "add" -> RAdd(dst, src)
    [] mode = "multiply" -> RMul(dst, src)


\* Fault: the destination's share of the alpha is dropped.
OutAlphaSourceOnly(a, dstA) == a

\* outA = a + dstA * (1 - a).
OutAlpha(a, dstA) == RAdd(a, RMul(dstA, RSub(One, a)))

\* (blended * a + dst * dstA * (1 - a)) / outA.
OutChannel(blended, dst, a, dstA, outA) ==
  RDiv(RAdd(RMul(blended, a), RMul(RMul(dst, dstA), RSub(One, a))), outA)

\* The alpha compositing of blendPixel on the pixel at index i of arr.
Composite(arr, i, r, g, b, a, mode) ==
  LET dstR == At(arr, i)
      dstG == At(arr, i + 1)
      dstB == At(arr, i + 2)
      dstA == At(arr, i + 3)
      outA == OutAlpha(a, dstA)
  IN  IF outA = Zero THEN StorePixel(arr, i, Zero, Zero, Zero, Zero)
      ELSE StorePixel(arr, i,
             OutChannel(Blended(mode, dstR, r), dstR, a, dstA, outA),
             OutChannel(Blended(mode, dstG, g), dstG, a, dstA, outA),
             OutChannel(Blended(mode, dstB, b), dstB, a, dstA, outA),
             outA)

\* blendPixel(x, y, r, g, b, a, mode).
BlendPixel(h, os, self, x, y, r, g, b, a, mode) ==
  LET o == os[self]
  IN  IF OutOfBounds(o, x, y) THEN Threw(h, os)
      ELSE Done([h EXCEPT ![o.data] = Composite(@, Offset(o, x, y), r, g, b, a, mode)],
                os, <<>>)

\* The loop of clear from index i on.
RECURSIVE ClearFrom(_, _, _, _, _, _)
ClearFrom(arr, i, r, g, b, a) ==
  IF i < Len(arr.elems) THEN ClearFrom(StorePixel(arr, i, r, g, b, a), i + 4, r, g, b, a)
  ELSE arr

\* clear(r, g, b, a); c is <<>> when every argument is omitted.
Clear(h, os, self, c) ==
  LET o == os[self]
      cc == IF c = <<>> THEN <<Zero, Zero, Zero, Zero>> ELSE c
  IN  Done([h EXCEPT ![o.data] = ClearFrom(@, 0, cc[1], cc[2], cc[3], cc[4])], os, <<>>)


\* Fault: a rectangle touching the right or bottom edge is rejected.
ExceedsBoundsAtEdge(o, x, y, w, h) ==
  x < 0 \/ y < 0 \/ x + w >= o.width \/ y + h >= o.height

\* The first check of getRegion and the check of putRegion: the rectangle
\* (x, y, w, h) does not lie inside o.
ExceedsBounds(o, x, y, w, h) == x < 0 \/ y < 0 \/ x + w > o.width \/ y + h > o.height

\* The second check of getRegion.
NonPositive(w, h) == w <= 0 \/ h <= 0


\* Fault: the region is built with the default depth.
RegionDepthDefault(o) == <<>>

\* The depth getRegion constructs the region with.
RegionDepth(o) == <<o.depth>>

\* The row loop of getRegion from `row` on: h[dst] is the region's array.
RECURSIVE GetRows(_, _, _, _, _, _, _, _)
GetRows(h, o, dst, x, y, w, hh, row) ==
  IF row < hh
  THEN LET srcStart == ((y + row) * o.width + x) * 4
           dstStart == row * w * 4
       IN  GetRows([h EXCEPT ![dst] =
                      ArraySet(@, Subarray(h[o.data], srcStart, srcStart + w * 4), dstStart)],
                   o, dst, x, y, w, hh, row + 1)
  ELSE h

\* getRegion(x, y, w, h): returns the new region.
GetRegion(h, os, self, x, y, w, hh) ==
  LET o == os[self]
      made == NewColorBuffer(h, os, Rat(w, 1), Rat(hh, 1), RegionDepth(o))
      region == made.objs[made.ret]
  IN  IF ExceedsBounds(o, x, y, w, hh) THEN Threw(h, os)
      ELSE IF NonPositive(w, hh) THEN Threw(h, os)
      ELSE IF made.threw THEN Threw(h, os)
      ELSE Done(GetRows(made.heap, o, region.data, x, y, w, hh, 0), made.objs, made.ret)

\* The row loop of putRegion from `row` on: each row is read from the heap
\* as the rows before it left it.
RECURSIVE PutRows(_, _, _, _, _, _)
PutRows(h, o, region, x, y, row) ==
  IF row < region.height
  THEN LET srcStart == row * region.width * 4
           dstStart == ((y + row) * o.width + x) * 4
       IN  PutRows([h EXCEPT ![o.data] =
                      ArraySet(@, Subarray(h[region.data], srcStart,
                                           srcStart + region.width * 4), dstStart)],
                   o, region, x, y, row + 1)
  ELSE h

\* putRegion(x, y, region); region is an object of os.
PutRegion(h, os, self, x, y, r) ==
  LET o == os[self]
      region == os[r]
  IN  IF ExceedsBounds(o, x, y, region.width, region.height) THEN Threw(h, os)
      ELSE Done(PutRows(h, o, region, x, y, 0), os, <<>>)

\* Fault: the index is computed column by column.
UncheckedOffsetByColumn(o, x, y) == (x * o.height + y) * 4

\* The index the unchecked pixel methods compute, with no bounds check.
UncheckedOffset(o, x, y) == (y * o.width + x) * 4

\* setPixelUnchecked(x, y, r, g, b, a); a is <<>> when omitted.
SetPixelUnchecked(h, os, self, x, y, r, g, b, a) ==
  LET o == os[self]
      aa == IF a = <<>> THEN One ELSE a[1]
      i == UncheckedOffset(o, x, y)
  IN  Done([h EXCEPT ![o.data] = StorePixel(@, i, r, g, b, aa)], os, <<>>)

\* blendPixelUnchecked(x, y, r, g, b, a, mode).
BlendPixelUnchecked(h, os, self, x, y, r, g, b, a, mode) ==
  LET o == os[self]
      i == UncheckedOffset(o, x, y)
      arr == h[o.data]
      dstR == At(arr, i)
      dstG == At(arr, i + 1)
      dstB == At(arr, i + 2)
      dstA == At(arr, i + 3)
      outA == RAdd(a, RMul(dstA, RSub(One, a)))
      out(bl, dst) == RDiv(RAdd(RMul(bl, a), RMul(RMul(dst, dstA), RSub(One, a))), outA)
      mix(dst, src) == CASE mode = "normal" -> src
                         [] mode = "add" -> RAdd(dst, src)
                         [] mode = "multiply" -> RMul(dst, src)
  IN  Done([h EXCEPT ![o.data] =
              IF outA = Zero THEN StorePixel(arr, i, Zero, Zero, Zero, Zero)
              ELSE StorePixel(arr, i, out(mix(dstR, r), dstR), out(mix(dstG, g), dstG),
                              out(mix(dstB, b), dstB), outA)],
           os, <<>>)

\* setRowUnchecked(y, startX, pixelCount, floats); floats is a typed array.
SetRowUnchecked(h, os, self, y, startX, pixelCount, floats) ==
  LET o == os[self]
      dstOffset == (y * o.width + startX) * 4
  IN  Done([h EXCEPT ![o.data] = ArraySet(@, Subarray(floats, 0, pixelCount * 4), dstOffset)],
           os, <<>>)

\* The fast path of blendRowUnchecked: the source pixel of alpha a is skipped.
SkipTransparent(a) == a = Zero

\* The loop of blendRowUnchecked from pixel p on, on the array arr.
RECURSIVE BlendRowFrom(_, _, _, _, _, _)
BlendRowFrom(arr, dstIdx, p, pixelCount, floats, mode) ==
  IF p < pixelCount
  THEN LET srcIdx == p * 4
           a == At(floats, srcIdx + 3)
           r == At(floats, srcIdx)
           g == At(floats, srcIdx + 1)
           b == At(floats, srcIdx + 2)
           dstR == At(arr, dstIdx)
           dstG == At(arr, dstIdx + 1)
           dstB == At(arr, dstIdx + 2)
           dstA == At(arr, dstIdx + 3)
           outA == RAdd(a, RMul(dstA, RSub(One, a)))
           out(bl, dst) == RDiv(RAdd(RMul(bl, a), RMul(RMul(dst, dstA), RSub(One, a))), outA)
           mix(dst, src) == CASE mode = "normal" -> src
                              [] mode = "add" -> RAdd(dst, src)
                              [] mode = "multiply" -> RMul(dst, src)
       IN  IF SkipTransparent(a)
           THEN BlendRowFrom(arr, dstIdx + 4, p + 1, pixelCount, floats, mode)
           ELSE BlendRowFrom(
                  IF outA = Zero THEN StorePixel(arr, dstIdx, Zero, Zero, Zero, Zero)
                  ELSE StorePixel(arr, dstIdx, out(mix(dstR, r), dstR),
                                  out(mix(dstG, g), dstG), out(mix(dstB, b), dstB), outA),
                  dstIdx + 4, p + 1, pixelCount, floats, mode)
  ELSE arr

\* blendRowUnchecked(y, startX, pixelCount, floats, mode).
BlendRowUnchecked(h, os, self, y, startX, pixelCount, floats, mode) ==
  LET o == os[self]
      dstIdx == (y * o.width + startX) * 4
  IN  Done([h EXCEPT ![o.data] = BlendRowFrom(@, dstIdx, 0, pixelCount, floats, mode)],
           os, <<>>)

\* -------------------------------------------------------------- ToneMapper
\* Comparisons, floor and Math.round on numbers.
RLess(a, b) == a[1] * b[2] < b[1] * a[2]
RLeq(a, b) == a[1] * b[2] <= b[1] * a[2]
Floor(q) == q[1] \div q[2]

\* Math.round(q): the nearest integer, halves upward.
MathRound(q) ==
  LET f == Floor(q)
  IN  IF 2 * (q[1] - f * q[2]) >= q[2] THEN f + 1 ELSE f

\* The largest finite double, scaled down: a finite result beyond it is an
\* infinity.
MaxFinite == 100000

\* The doubles that are not numbers of the model: the infinities and NaN.
Infinity == <<1, 0>>
NegInfinity == <<-1, 0>>
NaN == <<0, 0>>
IsNaN(v) == v = NaN
IsFinite(v) == v[2] # 0
Sign(v) == IF v[1] < 0 THEN -1 ELSE IF v[1] > 0 THEN 1 ELSE 0
Signed(k) == IF k < 0 THEN NegInfinity ELSE IF k > 0 THEN Infinity ELSE NaN

\* A finite result as the double holds it.
Overflowed(q) ==
  LET whole == Abs(q[1]) \div q[2]
      beyond == whole > MaxFinite \/ (whole = MaxFinite /\ Abs(q[1]) % q[2] # 0)
  IN  IF ~beyond THEN q ELSE IF q[1] > 0 THEN Infinity ELSE NegInfinity

\* a + b, a * b, a / b and a < b on doubles.
FAdd(a, b) ==
  IF IsNaN(a) \/ IsNaN(b) THEN NaN
  ELSE IF IsFinite(a) /\ IsFinite(b) THEN Overflowed(RAdd(a, b))
  ELSE IF IsFinite(b) THEN a
  ELSE IF IsFinite(a) THEN b
  ELSE IF a = b THEN a ELSE NaN
FMul(a, b) ==
  IF IsNaN(a) \/ IsNaN(b) THEN NaN
  ELSE IF IsFinite(a) /\ IsFinite(b) THEN Overflowed(RMul(a, b))
  ELSE Signed(Sign(a) * Sign(b))
FDiv(a, b) ==
  IF IsNaN(a) \/ IsNaN(b) THEN NaN
  ELSE IF IsFinite(a) /\ IsFinite(b)
       THEN IF b = Zero THEN Signed(Sign(a)) ELSE Overflowed(RDiv(a, b))
  ELSE IF IsFinite(b) THEN (IF Sign(b) < 0 THEN Signed(0 - Sign(a)) ELSE a)
  ELSE IF IsFinite(a) THEN Zero
  ELSE NaN
FLess(a, b) ==
  IF IsNaN(a) \/ IsNaN(b) THEN FALSE
  ELSE IF IsFinite(a) /\ IsFinite(b) THEN RLess(a, b)
  ELSE IF a = b THEN FALSE
  ELSE a = NegInfinity \/ b = Infinity

\* clamp(v).
Clamp(v) == IF FLess(v, Zero) THEN Zero ELSE IF FLess(One, v) THEN One ELSE v

\* reinhard(v).
Reinhard(v) == IF FLess(v, Zero) THEN Zero ELSE FDiv(v, FAdd(One, v))

\* aces(v): the coefficients are 2.51, 0.03, 2.43, 0.59 and 0.14.
Aces(v) ==
  IF FLess(v, Zero) THEN Zero
  ELSE LET a == Rat(251, 100)
           b == Rat(3, 100)
           c == Rat(243, 100)
           d == Rat(59, 100)
           e == Rat(14, 100)
           mapped == FDiv(FMul(v, FAdd(FMul(a, v), b)),
                          FAdd(FMul(v, FAdd(FMul(c, v), d)), e))
       IN  IF FLess(mapped, Zero) THEN Zero ELSE IF FLess(One, mapped) THEN One ELSE mapped

\* TONE_MAP_ALGORITHMS: its own keys, and the keys a property lookup on the
\* object literal also finds, inherited from Object.prototype.
OwnAlgorithms == {"clamp", "reinhard", "aces"}
InheritedProperties ==
  {"constructor", "toString", "toLocaleString", "valueOf", "hasOwnProperty",
   "isPrototypeOf", "propertyIsEnumerable", "__proto__"}

\* TONE_MAP_ALGORITHMS[name]: <<>> is undefined, anything else is truthy.
RegistryLookup(name) ==
  IF name \in OwnAlgorithms THEN <<name>>
  ELSE IF name \in InheritedProperties THEN <<"Object.prototype">>
  ELSE <<>>

\* A call of the tone mapping function fn, one of the built-in three.
ApplyMapFn(fn, v) ==
  CASE fn = "clamp" -> Clamp(v)
    [] fn = "reinhard" -> Reinhard(v)
    [] fn = "aces" -> Aces(v)

\* q to the n-th power, n a positive integer.
RECURSIVE IntPow(_, _)
IntPow(q, n) == IF n <= 1 THEN q ELSE RMul(q, IntPow(q, n - 1))

\* Math.pow(v, e) for e = k/r, kept exact as the r-th root of base = v^k.
MathPow(v, e) == [base |-> IntPow(v, e[1]), root |-> e[2]]

\* x < 0 ? 0 : x > 1 ? 1 : x on a power.
ClampPower(p) ==
  IF RLess(p.base, Zero) THEN [base |-> Zero, root |-> 1]
  ELSE IF RLess(One, p.base) THEN [base |-> One, root |-> 1]
  ELSE p

\* The largest integer whose square is at most n, between lo and hi.
RECURSIVE ISqrtIn(_, _, _)
ISqrtIn(n, lo, hi) ==
  IF lo >= hi THEN lo
  ELSE LET mid == (lo + hi + 1) \div 2
       IN  IF mid * mid <= n THEN ISqrtIn(n, mid, hi) ELSE ISqrtIn(n, lo, mid - 1)

\* <<q, r>> with n * m = q * d + r and 0 <= r < d, for n, m >= 0 and d > 0,
\* computed without leaving 32 bits.
RECURSIVE MulDiv(_, _, _)
MulDiv(n, m, d) ==
  IF m = 0 THEN <<0, 0>>
  ELSE IF m % 2 = 0
       THEN LET h == MulDiv(n, m \div 2, d)
                carry == IF h[2] >= d - h[2] THEN 1 ELSE 0
            IN  <<2 * h[1] + carry, IF carry = 1 THEN h[2] - (d - h[2]) ELSE 2 * h[2]>>
       ELSE LET h == MulDiv(n, m - 1, d)
                nr == n % d
                carry == IF h[2] >= d - nr THEN 1 ELSE 0
            IN  <<h[1] + (n \div d) + carry,
                  IF carry = 1 THEN h[2] - (d - nr) ELSE h[2] + nr>>

\* Math.round(p * maxVal) for a power p >= 0 with root 1 or 2.
RoundTimes(p, maxVal) ==
  IF p.root = 1
  THEN LET qr == MulDiv(p.base[1], maxVal, p.base[2])
       IN  IF qr[2] >= p.base[2] - qr[2] THEN qr[1] + 1 ELSE qr[1]
  ELSE LET n == MulDiv(p.base[1], 4 * maxVal * maxVal, p.base[2])[1]
       IN  (ISqrtIn(n, 0, 2 * maxVal + 2) + 1) \div 2

\* The powers the model computes: a root of 2 only for 8-bit values.
Computes(e, maxVal) == e[2] = 1 \/ (e[2] = 2 /\ maxVal = 255)

\* Entries of the gamma table, less one.
LUT_SIZE == 4096

\* A value stored in a Uint8Array or Uint16Array.
ToUint(bits, n) == n % (2 ^ bits)

\* new ToneMapper(options).  options is [algorithm, exposure, gamma,
\* outputDepth]; algorithm is [isFunction, name], the others are <<>> when
\* omitted and <<v>> when given.  The result is [threw, ret].
NewToneMapper(options) ==
  LET alg == options.algorithm
      fn == IF alg.isFunction THEN <<alg.name>> ELSE RegistryLookup(alg.name)
      exposure == IF options.exposure = <<>> THEN 0 ELSE options.exposure[1]
      gamma == IF options.gamma = <<>> THEN Rat(22, 10) ELSE options.gamma[1]
      outputDepth == IF options.outputDepth = <<>> THEN 8 ELSE options.outputDepth[1]
  IN  IF fn = <<>> THEN [threw |-> TRUE, ret |-> <<>>]
      ELSE IF RLeq(gamma, Zero) THEN [threw |-> TRUE, ret |-> <<>>]
      ELSE IF outputDepth # 8 /\ outputDepth # 16 THEN [threw |-> TRUE, ret |-> <<>>]
      ELSE [threw |-> FALSE,
            ret |-> [mapFn |-> fn[1],
                     exposureMultiplier |-> Scaled(1, exposure),
                     invGamma |-> RDiv(One, gamma),
                     outputDepth |-> outputDepth,
                     maxVal |-> IF outputDepth = 16 THEN 65535 ELSE 255]]

\* gammaLut[i] of map.
GammaLut(m, i) ==
  ToUint(8, RoundTimes(MathPow(Rat(i, LUT_SIZE), m.invGamma), m.maxVal))

\* Fault: the table index is truncated instead of rounded.
LutIndexTruncated(mapped) ==
  IF IsNaN(mapped) THEN 0 ELSE Floor(RMul(mapped, Rat(LUT_SIZE, 1)))

\* (mapped * LUT_SIZE + 0.5) | 0, mapped in [0, 1] or NaN: NaN | 0 is 0.
LutIndex(mapped) ==
  IF IsNaN(mapped) THEN 0 ELSE Floor(RAdd(RMul(mapped, Rat(LUT_SIZE, 1)), Rat(1, 2)))

\* One R, G or B value on the 8-bit path of map.
MapChannelLut(m, v) ==
  LET mapped == ApplyMapFn(m.mapFn, FMul(v, m.exposureMultiplier))
  IN  ToUint(8, GammaLut(m, LutIndex(Clamp(mapped))))

\* One R, G or B value on the 16-bit path of map: NaN stays NaN through
\* Math.pow, the clamp and Math.round, and is stored as 0.
MapChannelPow(m, v) ==
  LET exposed == FMul(v, m.exposureMultiplier)
      mapped == ApplyMapFn(m.mapFn, exposed)
  IN  IF IsNaN(mapped) THEN 0
      ELSE LET gammaed == MathPow(mapped, m.invGamma)
               clamped == ClampPower(gammaed)
           IN  ToUint(16, RoundTimes(clamped, m.maxVal))

\* Fault: alpha goes through the exposure multiplier.
MapAlphaExposed(m, a) ==
  ToUint(m.outputDepth, MathRound(RMul(Clamp(RMul(a, m.exposureMultiplier)), Rat(m.maxVal, 1))))

\* The alpha value of map, on either path.
MapAlpha(m, a) == ToUint(m.outputDepth, MathRound(RMul(Clamp(a), Rat(m.maxVal, 1))))

\* map(input): the values of the Uint8Array or Uint16Array returned.
Map(m, input, arr) ==
  LET totalValues == input.width * input.height * 4
  IN  [k \in 1..totalValues |->
         IF k % 4 = 0 THEN MapAlpha(m, arr.elems[k])
         ELSE IF m.outputDepth = 8 THEN MapChannelLut(m, arr.elems[k])
         ELSE MapChannelPow(m, arr.elems[k])]

\* ----------------------------------------------------------- state machine
\* objs: the ColorBuffer objects made so far; heap: the typed arrays they
\* own; last: the last call (its name, receiver, arguments, whether it threw
\* and what it returned); before: the heap and the objects as that call found
\* them; nops: the calls made; mappers: the ToneMapper objects made so far.
VARIABLES objs, heap, last, before, nops, mappers

vars == <<objs, heap, last, before, nops, mappers>>

\* The colours the calls are made with: translucent with a value float32
\* cannot hold, an HDR value and a negative one; transparent with colour;
\* opaque.
Palette ==
  << <<Rat(1, 5), Rat(2, 1), Rat(-1, 1), Rat(1, 2)>>,
     <<Rat(1, 1), Rat(1, 2), Rat(2, 1), Rat(0, 1)>>,
     <<Rat(1, 2), Rat(0, 1), Rat(1, 1), Rat(1, 1)>> >>

Colours == {Palette[k] : k \in 1..Len(Palette)}

\* The colour of pixel (x, y) in the test pattern the first buffer holds.
PatternColour(x, y) == Palette[((x + 2 * y) % Len(Palette)) + 1]

\* A typed array of `pixels` pixels holding the palette from `shift` on.
PaletteRow(kind, pixels, shift) ==
  [kind |-> kind,
   elems |-> [k \in 1..(pixels * 4) |->
                ToElem(kind, Palette[((((k - 1) \div 4) + shift) % Len(Palette)) + 1]
                                    [((k - 1) % 4) + 1])]]

\* The source rows of the row calls, one pixel longer than the widest
\* buffer: a Float64Array starting with the translucent colour and a
\* Float32Array starting with the transparent one.
Rows == {PaletteRow(64, MaxDim + 1, 0), PaletteRow(32, MaxDim + 1, 1)}

\* The buffer the run starts with: width x height of the given depth, every
\* pixel set (setPixel) to its colour of the test pattern.
PatternArray(width, height, depth) ==
  [kind |-> depth,
   elems |-> [k \in 1..(width * height * 4) |->
                ToElem(depth, PatternColour(((k - 1) \div 4) % width,
                                            ((k - 1) \div 4) \div width)[((k - 1) % 4) + 1])]]

NoCall == [op |-> "none", self |-> 0, args |-> <<>>, threw |-> FALSE, ret |-> <<>>]

Init ==
  \E width \in 1..MaxDim, height \in 1..MaxDim, depth \in {32, 64} :
    /\ objs = << [width |-> width, height |-> height, depth |-> depth, data |-> 1] >>
    /\ heap = << PatternArray(width, height, depth) >>
    /\ last = NoCall
    /\ before = [heap |-> heap, objs |-> objs]
    /\ nops = 0
    /\ mappers = <<>>

\* A call is made while the run has calls left and no call has thrown: a
\* RangeError ends the run.
CanCall == nops < MaxOps /\ ~last.threw

\* The call `op` on object `self` with `args` had outcome `out`.
Call(op, self, args, out) ==
  /\ heap' = out.heap
  /\ objs' = out.objs
  /\ last' = [op |-> op, self |-> self, args |-> args, threw |-> out.threw, ret |-> out.ret]
  /\ before' = [heap |-> heap, objs |-> objs]
  /\ nops' = nops + 1
  /\ UNCHANGED mappers

Selves == 1..Len(objs)
Xs(o) == -1..o.width
Ys(o) == -1..o.height
InBounds(o, x, y) == x \in 0..(o.width - 1) /\ y \in 0..(o.height - 1)

\* The (origin, length) pairs of one axis of a rectangle: inside a buffer
\* of MaxDim, overflowing it, a negative origin, a zero and a negative
\* length.
AxisArgs == {<<p, n>> : p \in -1..(MaxDim - 1), n \in -1..MaxDim}
PlainAxis == {<<p, n>> \in AxisArgs : p >= 0 /\ n >= 1}

\* The rectangles getRegion is called with: both axes plain, or one axis
\* anything and the other the first pixel, or both axes bad.
RectArgs ==
  {<<ax[1], ay[1], ax[2], ay[2]>> : ax \in PlainAxis, ay \in PlainAxis}
    \cup {<<ax[1], 0, ax[2], 1>> : ax \in AxisArgs}
    \cup {<<0, ay[1], 1, ay[2]>> : ay \in AxisArgs}
    \cup {<<-1, -1, 0, 0>>, <<-1, 0, 1, -1>>, <<0, 0, -1, -1>>}

\* Constructor arguments: the integers around the valid range and a fraction.
DimArgs == {Rat(n, 1) : n \in -1..MaxDim} \cup {Rat(3, 2)}

DoNew ==
  /\ CanCall
  /\ \E width \in DimArgs, height \in DimArgs, depth \in {<<>>, <<64>>} :
       Call("new", 0, <<width, height, depth>>,
               NewColorBuffer(heap, objs, width, height, depth))

\* Out of bounds one colour is tried; in bounds every colour, and the
\* opaque one also with its alpha omitted.
DoSetPixel ==
  /\ CanCall
  /\ \E self \in Selves : \E x \in Xs(objs[self]), y \in Ys(objs[self]), c \in Colours :
       \E alpha \in {<<>>, <<c[4]>>} :
       /\ InBounds(objs[self], x, y) \/ c = Palette[1]
       /\ alpha = <<>> => c = Palette[3]
       /\ Call("setPixel", self, <<x, y, c[1], c[2], c[3], alpha>>,
               SetPixel(heap, objs, self, x, y, c[1], c[2], c[3], alpha))

DoGetPixel ==
  /\ CanCall
  /\ \E self \in Selves : \E x \in Xs(objs[self]), y \in Ys(objs[self]) :
       Call("getPixel", self, <<x, y>>, GetPixel(heap, objs, self, x, y))

\* Out of bounds one colour is tried in each mode; in bounds every colour.
DoBlendPixel ==
  /\ CanCall
  /\ \E self \in Selves : \E x \in Xs(objs[self]), y \in Ys(objs[self]), c \in Colours,
        mode \in Modes :
       /\ InBounds(objs[self], x, y) \/ c = Palette[1]
       /\ Call("blendPixel", self, <<x, y, c[1], c[2], c[3], c[4], mode>>,
               BlendPixel(heap, objs, self, x, y, c[1], c[2], c[3], c[4], mode))

DoClear ==
  /\ CanCall
  /\ \E self \in Selves : \E c \in {<<>>} \cup Colours :
       Call("clear", self, <<c>>, Clear(heap, objs, self, c))

DoGetRegion ==
  /\ CanCall
  /\ \E self \in Selves : \E rect \in RectArgs :
       Call("getRegion", self, rect,
               GetRegion(heap, objs, self, rect[1], rect[2], rect[3], rect[4]))

DoPutRegion ==
  /\ CanCall
  /\ \E self \in Selves, r \in Selves : \E x \in -1..(MaxDim - 1), y \in -1..(MaxDim - 1) :
       Call("putRegion", self, <<x, y, r>>, PutRegion(heap, objs, self, x, y, r))

\* The unchecked calls are made within their contract: (x, y) in bounds, the
\* row inside the buffer and no longer than the source.
DoSetPixelUnchecked ==
  /\ CanCall
  /\ \E self \in Selves : \E x \in 0..(objs[self].width - 1), y \in 0..(objs[self].height - 1),
        c \in Colours :
       \E alpha \in {<<>>, <<c[4]>>} :
       /\ alpha = <<>> => c = Palette[3]
       /\ Call("setPixelUnchecked", self, <<x, y, c[1], c[2], c[3], alpha>>,
               SetPixelUnchecked(heap, objs, self, x, y, c[1], c[2], c[3], alpha))

DoBlendPixelUnchecked ==
  /\ CanCall
  /\ \E self \in Selves : \E x \in 0..(objs[self].width - 1), y \in 0..(objs[self].height - 1),
        c \in Colours, mode \in Modes :
       Call("blendPixelUnchecked", self, <<x, y, c[1], c[2], c[3], c[4], mode>>,
            BlendPixelUnchecked(heap, objs, self, x, y, c[1], c[2], c[3], c[4], mode))

DoSetRowUnchecked ==
  /\ CanCall
  /\ \E self \in Selves : \E y \in 0..(objs[self].height - 1),
        startX \in 0..(objs[self].width - 1), floats \in Rows :
       \E pixelCount \in 1..(objs[self].width - startX) :
         Call("setRowUnchecked", self, <<y, startX, pixelCount, floats>>,
              SetRowUnchecked(heap, objs, self, y, startX, pixelCount, floats))

DoBlendRowUnchecked ==
  /\ CanCall
  /\ \E self \in Selves : \E y \in 0..(objs[self].height - 1),
        startX \in 0..(objs[self].width - 1), floats \in Rows, mode \in Modes :
       \E pixelCount \in 1..(objs[self].width - startX) :
         Call("blendRowUnchecked", self, <<y, startX, pixelCount, floats, mode>>,
              BlendRowUnchecked(heap, objs, self, y, startX, pixelCount, floats, mode))

Next ==
  \/ DoNew
  \/ DoSetPixel
  \/ DoGetPixel
  \/ DoBlendPixel
  \/ DoClear
  \/ DoGetRegion
  \/ DoPutRegion
  \/ DoSetPixelUnchecked
  \/ DoBlendPixelUnchecked
  \/ DoSetRowUnchecked
  \/ DoBlendRowUnchecked

Spec == Init /\ [][Next]_vars

\* ------------------------------------------------------------------ claims
\* What the last call was made with and on.
Arg(k) == last.args[k]
Self == objs[last.self]
Returned(op) == last.op = op /\ ~last.threw
Raised(op) == last.op = op /\ last.threw

\* The array of object o as the last call found it and as it left it.
Old(o) == before.heap[o.data]
New(o) == heap[o.data]

\* Pixel (x, y) of the width-wide array arr: its four values.
PixelOf(arr, width, x, y) == [c \in 1..4 |-> arr.elems[(y * width + x) * 4 + c]]

\* The heap `h` with pixel (x, y) of object o holding the colour `c` as an
\* element of o's array holds it, and nothing else changed.
WithPixel(h, o, x, y, c) ==
  [h EXCEPT ![o.data] =
     [kind |-> h[o.data].kind,
      elems |-> [k \in 1..Len(h[o.data].elems) |->
                   IF (k - 1) \div 4 = y * o.width + x
                   THEN ToElem(h[o.data].kind, c[((k - 1) % 4) + 1])
                   ELSE h[o.data].elems[k]]]]

\* The colour the blend formula gives for source (r, g, b, a) over dst.
Over(dst, r, g, b, a, mode) ==
  LET src == <<r, g, b>>
      outA == RAdd(a, RMul(dst[4], RSub(One, a)))
      mixed(c) == IF mode = "normal" THEN src[c]
                  ELSE IF mode = "add" THEN RAdd(dst[c], src[c])
                  ELSE RMul(dst[c], src[c])
      chan(c) == RDiv(RAdd(RMul(mixed(c), a), RMul(RMul(dst[c], dst[4]), RSub(One, a))), outA)
  IN  IF outA = Zero THEN <<Zero, Zero, Zero, Zero>>
      ELSE <<chan(1), chan(2), chan(3), outA>>

\* C1: blendPixel on an in-bounds (x, y) leaves the buffer as it was with
\* only pixel (x, y) replaced (stored in the buffer's element type) by
\* outA = a + dstA*(1-a); (0,0,0,0) if outA = 0; otherwise each RGB channel
\* (mixed*a + dst*dstA*(1-a))/outA with mixed = src, dst+src or dst*src by
\* mode, and alpha outA in every mode.
C1_BlendPixelFormula ==
  Returned("blendPixel") =>
    /\ objs = before.objs
    /\ heap = WithPixel(before.heap, Self, Arg(1), Arg(2),
                        Over(PixelOf(Old(Self), Self.width, Arg(1), Arg(2)),
                             Arg(3), Arg(4), Arg(5), Arg(6), Arg(7)))

\* A translucent source was multiplied over a pixel that is not transparent.
C1_Witness ==
  /\ Returned("blendPixel")
  /\ Arg(7) = "multiply"
  /\ Arg(6) = Rat(1, 2)
  /\ PixelOf(Old(Self), Self.width, Arg(1), Arg(2))[4] # Zero
  /\ heap # before.heap

\* C2: blendPixel with source alpha 0 leaves the pixel and the whole buffer
\* unchanged, whatever the destination pixel, source RGB and mode.
C2_ZeroAlphaIsNoOp ==
  (Returned("blendPixel") /\ Arg(6) = Zero) => heap = before.heap

\* The state after `count - p` calls blendPixel(startX + p, y, row[4p..4p+3], mode).
RECURSIVE BlendPixels(_, _, _, _, _, _, _, _, _)
BlendPixels(h, os, self, y, startX, p, count, floats, mode) ==
  IF p < count
  THEN BlendPixels(
         BlendPixel(h, os, self, startX + p, y, At(floats, 4 * p), At(floats, 4 * p + 1),
                    At(floats, 4 * p + 2), At(floats, 4 * p + 3), mode).heap,
         os, self, y, startX, p + 1, count, floats, mode)
  ELSE h

\* C3: blendRowUnchecked(y, startX, count, row, mode) leaves the buffer as
\* the calls blendPixel(startX + p, y, row[4p..4p+3], mode), p = 0..count-1,
\* leave it, source pixels of alpha 0 included.
C3_RowBlendIsPixelBlends ==
  Returned("blendRowUnchecked") =>
    heap = BlendPixels(before.heap, before.objs, last.self, Arg(1), Arg(2), 0, Arg(3),
                       Arg(4), Arg(5))

\* The alpha setPixel was given, 1 when it was omitted.
GivenAlpha == IF Arg(6) = <<>> THEN One ELSE Arg(6)[1]
GivenColour == <<Arg(3), Arg(4), Arg(5), GivenAlpha>>

\* C4 as claimed: setPixel(x, y, c) leaves the buffer as it was with the 4
\* values of pixel (x, y) replaced by c, so that getPixel(x, y) then returns
\* c, an omitted alpha being 1.
C4_SetThenGetIsExact ==
  Returned("setPixel") =>
    GetPixel(heap, objs, last.self, Arg(1), Arg(2)).ret = GivenColour

\* C4 as amended: setPixel(x, y, c) leaves the buffer as it was with the 4
\* values of pixel (x, y) replaced by c converted to the buffer's element
\* type, without clamping; getPixel(x, y) then returns those values, which
\* are c itself when the depth is 64 or c's components are float32 values;
\* an omitted alpha is 1.
C4_SetThenGetIsStored ==
  Returned("setPixel") =>
    LET got == GetPixel(heap, objs, last.self, Arg(1), Arg(2))
    IN  /\ objs = before.objs
        /\ heap = WithPixel(before.heap, Self, Arg(1), Arg(2), GivenColour)
        /\ ~got.threw
        /\ got.ret = [c \in 1..4 |-> ToElem(Self.depth, GivenColour[c])]
        /\ (Self.depth = 64 \/ \A c \in 1..4 : Fround(GivenColour[c]) = GivenColour[c])
             => got.ret = GivenColour

\* An HDR, negative colour with a component float32 cannot hold was set in a
\* depth-32 buffer: the pixel keeps 2 and -1 and is not the colour given.
C4_Witness ==
  /\ Returned("setPixel")
  /\ Self.depth = 32
  /\ GivenColour = Palette[1]
  /\ PixelOf(New(Self), Self.width, Arg(1), Arg(2)) # GivenColour
  /\ PixelOf(New(Self), Self.width, Arg(1), Arg(2))[2] = Rat(2, 1)
  /\ PixelOf(New(Self), Self.width, Arg(1), Arg(2))[3] = Rat(-1, 1)

\* C5: in every reachable state each buffer's data holds width*height*4
\* values, its width and height are positive integers and stay what they
\* were at construction, and a constructed buffer has the dimensions given
\* and holds zeros.
C5_DataLength ==
  /\ \A k \in 1..Len(objs) :
       /\ objs[k].width \in Nat \ {0}
       /\ objs[k].height \in Nat \ {0}
       /\ Len(heap[objs[k].data].elems) = objs[k].width * objs[k].height * 4
  /\ Len(objs) >= Len(before.objs)
  /\ \A k \in 1..Len(before.objs) : objs[k] = before.objs[k]
  /\ Returned("new") =>
       /\ Len(objs) = Len(before.objs) + 1
       /\ Arg(1) = <<objs[last.ret].width, 1>>
       /\ Arg(2) = <<objs[last.ret].height, 1>>
       /\ \A k \in 1..(Arg(1)[1] * Arg(2)[1] * 4) : heap[objs[last.ret].data].elems[k] = Zero

\* After two calls there are two buffers of different size, the last call a
\* row blend that changed one of them.
C5_Witness ==
  /\ nops >= 2
  /\ Len(objs) = 2
  /\ Len(heap[objs[1].data].elems) # Len(heap[objs[2].data].elems)
  /\ Returned("blendRowUnchecked")
  /\ heap # before.heap

\* The arrays of the buffers that existed before the last call, but for the
\* one of buffer `self`, are as the call found them.
OthersUntouched(self) ==
  \A k \in 1..Len(before.objs) :
    k # self => heap[objs[k].data] = before.heap[before.objs[k].data]

\* C6: no two buffers share storage: a region returned by getRegion and its
\* source, and a destination of putRegion and the region put, own different
\* arrays, so a call on one buffer changes no pixel of any other buffer, and
\* getRegion and putRegion leave the source and the region put unchanged.
C6_NoAliasing ==
  /\ \A i, j \in 1..Len(objs) : i # j => objs[i].data # objs[j].data
  /\ last.op \notin {"none", "new", "getRegion", "getPixel"} => OthersUntouched(last.self)
  /\ last.op \in {"new", "getRegion", "getPixel"} => OthersUntouched(0)

\* A pixel was set in a region that getRegion had returned (it held colour
\* before the call), and the source is as it was.
C6_Witness ==
  /\ Returned("setPixel")
  /\ last.self = 2
  /\ \E k \in 1..Len(Old(Self).elems) : Old(Self).elems[k] # Zero
  /\ heap # before.heap
  /\ heap[objs[1].data] = before.heap[objs[1].data]

\* C7: the region getRegion(x, y, w, h) returns has width w, height h and
\* the source's depth, and put at (x, y) into a fresh buffer of the source's
\* dimensions and depth it makes pixel (x+i, y+j) of that buffer equal to the
\* source's, 0 <= i < w, 0 <= j < h.
C7_RegionRoundTrip ==
  Returned("getRegion") =>
    LET B == Self
        R == objs[last.ret]
        fresh == NewColorBuffer(heap, objs, Rat(B.width, 1), Rat(B.height, 1), <<B.depth>>)
        F == fresh.objs[fresh.ret]
        put == PutRegion(fresh.heap, fresh.objs, fresh.ret, Arg(1), Arg(2), last.ret)
    IN  /\ R.width = Arg(3) /\ R.height = Arg(4) /\ R.depth = B.depth
        /\ ~fresh.threw
        /\ ~put.threw
        /\ \A i \in 0..(Arg(3) - 1), j \in 0..(Arg(4) - 1) :
             PixelOf(put.heap[F.data], F.width, Arg(1) + i, Arg(2) + j)
               = PixelOf(Old(B), B.width, Arg(1) + i, Arg(2) + j)

\* A region two rows high was taken from the second column of a depth-64
\* buffer.
C7_Witness ==
  /\ Returned("getRegion")
  /\ Arg(1) = 1 /\ Arg(4) = 2
  /\ Self.depth = 64

\* C8: putRegion(x, y, region) throws and leaves the destination unchanged
\* when x < 0, y < 0, x + region.width > width or y + region.height > height;
\* otherwise it overwrites exactly the rectangle [x, x+region.width) x
\* [y, y+region.height) with the region's pixels (stored in the destination's
\* element type) and leaves every other pixel unchanged.
C8_PutRegion ==
  last.op = "putRegion" =>
    LET o == Self
        r == objs[Arg(3)]
        x == Arg(1)
        y == Arg(2)
        outside == x < 0 \/ y < 0 \/ x + r.width > o.width \/ y + r.height > o.height
        inRect(px, py) == px >= x /\ px < x + r.width /\ py >= y /\ py < y + r.height
    IN  /\ last.threw <=> outside
        /\ objs = before.objs
        /\ OthersUntouched(last.self)
        /\ last.threw => heap = before.heap
        /\ ~last.threw =>
             \A px \in 0..(o.width - 1), py \in 0..(o.height - 1) :
               PixelOf(New(o), o.width, px, py) =
                 IF inRect(px, py)
                 THEN [c \in 1..4 |->
                         ToElem(o.depth, PixelOf(Old(r), r.width, px - x, py - y)[c])]
                 ELSE PixelOf(Old(o), o.width, px, py)

\* A narrower region was put at a non-zero origin and changed the
\* destination.
C8_Witness ==
  /\ Returned("putRegion")
  /\ Arg(3) # last.self
  /\ objs[Arg(3)].width < Self.width
  /\ Arg(1) > 0
  /\ heap # before.heap

\* C9: getPixel, setPixel and blendPixel throw exactly when x is not in
\* [0, width) or y is not in [0, height), and a call that threw changed
\* nothing.
C9_PixelBounds ==
  last.op \in {"getPixel", "setPixel", "blendPixel"} =>
    /\ last.threw <=> ~(Arg(1) >= 0 /\ Arg(1) < Self.width /\ Arg(2) >= 0 /\ Arg(2) < Self.height)
    /\ last.threw => heap = before.heap /\ objs = before.objs

\* blendPixel threw for x = width.
C9_Witness == Raised("blendPixel") /\ Arg(1) = Self.width /\ Arg(2) = 0

\* C10: getRegion(x, y, w, h) returns a region exactly when x, y >= 0,
\* w, h > 0, x + w <= width and y + h <= height, and throws otherwise,
\* leaving the heap and the objects as they were.
C10_GetRegionFails ==
  last.op = "getRegion" =>
    LET o == Self
        fits == /\ Arg(1) >= 0 /\ Arg(2) >= 0 /\ Arg(3) > 0 /\ Arg(4) > 0
                /\ Arg(1) + Arg(3) <= o.width /\ Arg(2) + Arg(4) <= o.height
    IN  /\ last.threw <=> ~fits
        /\ last.threw => heap = before.heap /\ objs = before.objs
        /\ ~last.threw => Len(objs) = Len(before.objs) + 1 /\ last.ret = Len(objs)

\* getRegion threw for a negative width at an in-bounds origin, x + w <= width.
C10_Witness == Raised("getRegion") /\ Arg(1) = 0 /\ Arg(2) = 0 /\ Arg(3) = -1

\* A number is a positive integer.
PositiveInteger(n) == n[2] = 1 /\ n[1] >= 1

\* C11: new ColorBuffer(width, height, depth) throws, creating no buffer,
\* exactly when width or height is not a positive integer (zero, negative or
\* fractional); otherwise it creates one buffer of those dimensions whose
\* depth is the one given, 32 when omitted.
C11_ConstructorValidation ==
  last.op = "new" =>
    /\ last.threw <=> ~(PositiveInteger(Arg(1)) /\ PositiveInteger(Arg(2)))
    /\ last.threw => objs = before.objs /\ heap = before.heap
    /\ ~last.threw =>
         /\ Len(objs) = Len(before.objs) + 1
         /\ objs[last.ret].width = Arg(1)[1]
         /\ objs[last.ret].height = Arg(2)[1]
         /\ objs[last.ret].depth = (IF Arg(3) = <<>> THEN 32 ELSE Arg(3)[1])
         /\ heap[objs[last.ret].data].kind = objs[last.ret].depth

\* The constructor threw for a fractional height after accepting the width.
C11_Witness == Raised("new") /\ Arg(1) = <<1, 1>> /\ Arg(2) = <<3, 2>>

\* C12: on an in-bounds pixel, setPixelUnchecked leaves the heap exactly as
\* setPixel with the same arguments on the same buffers leaves it, and
\* blendPixelUnchecked exactly as blendPixel, in every mode; and the checked
\* calls leave it as the unchecked ones do.
C12_UncheckedMatchesChecked ==
  LET h == before.heap
      os == before.objs
      s == last.self
  IN  /\ Returned("setPixelUnchecked") =>
           LET checked == SetPixel(h, os, s, Arg(1), Arg(2), Arg(3), Arg(4), Arg(5), Arg(6))
           IN  ~checked.threw /\ heap = checked.heap /\ objs = checked.objs
      /\ Returned("blendPixelUnchecked") =>
           LET checked == BlendPixel(h, os, s, Arg(1), Arg(2), Arg(3), Arg(4), Arg(5),
                                     Arg(6), Arg(7))
           IN  ~checked.threw /\ heap = checked.heap /\ objs = checked.objs
      /\ Returned("setPixel") =>
           heap = SetPixelUnchecked(h, os, s, Arg(1), Arg(2), Arg(3), Arg(4), Arg(5),
                                    Arg(6)).heap
      /\ Returned("blendPixel") =>
           heap = BlendPixelUnchecked(h, os, s, Arg(1), Arg(2), Arg(3), Arg(4), Arg(5),
                                      Arg(6), Arg(7)).heap

\* blendPixelUnchecked multiplied onto a pixel off the diagonal of a buffer
\* with more than one row and column, and changed it.
C12_Witness ==
  /\ Returned("blendPixelUnchecked")
  /\ Arg(7) = "multiply"
  /\ Arg(1) = 1 /\ Arg(2) = 0
  /\ Self.height > 1
  /\ heap # before.heap

\* The heap after setPixel(startX + p, y, row[4p..4p+3]) for p, ..., count - 1.
RECURSIVE SetPixels(_, _, _, _, _, _, _, _)
SetPixels(h, os, self, y, startX, p, count, floats) ==
  IF p < count
  THEN SetPixels(SetPixel(h, os, self, startX + p, y, At(floats, 4 * p),
                          At(floats, 4 * p + 1), At(floats, 4 * p + 2),
                          <<At(floats, 4 * p + 3)>>).heap,
                 os, self, y, startX, p + 1, count, floats)
  ELSE h

\* C13: setRowUnchecked(y, startX, count, row) within its preconditions
\* leaves the heap exactly as count setPixel calls leave it: pixels
\* startX..startX+count-1 of row y hold the first count*4 values of the row
\* (in the buffer's element type), and every other pixel is unchanged, the
\* values of the row beyond count*4 being ignored.
C13_SetRowIsSetPixels ==
  Returned("setRowUnchecked") =>
    LET o == Self
        y == Arg(1)
        startX == Arg(2)
        count == Arg(3)
        floats == Arg(4)
    IN  /\ heap = SetPixels(before.heap, before.objs, last.self, y, startX, 0, count, floats)
        /\ objs = before.objs
        /\ \A px \in 0..(o.width - 1), py \in 0..(o.height - 1) :
             PixelOf(New(o), o.width, px, py) =
               IF py = y /\ px >= startX /\ px < startX + count
               THEN [c \in 1..4 |-> ToElem(o.depth, floats.elems[4 * (px - startX) + c])]
               ELSE PixelOf(Old(o), o.width, px, py)

\* A Float64 row was written into part of the first row of a depth-32
\* buffer that has a second row, from column 1, and changed it.
C13_Witness ==
  /\ Returned("setRowUnchecked")
  /\ Arg(1) = 0 /\ Arg(2) = 1 /\ Arg(3) = 1
  /\ Arg(4).kind = 64
  /\ Self.depth = 32 /\ Self.height > 1
  /\ Len(Arg(4).elems) > 4 * Arg(3)
  /\ heap # before.heap

\* ------------------------------------------------ ToneMapper state machine
\* The pixels tone mapped: the mid greys of the map tests, HDR and negative
\* values, alpha outside [0, 1], values between two table entries, and a
\* value whose square is beyond the largest double.
TonePixels ==
  << <<Rat(1, 2), Rat(1, 4), Rat(3, 4), One>>,
     <<Rat(7, 4), Rat(5, 4), Rat(1, 3), One>>,
     <<Rat(-1, 2), Zero, One, Rat(3, 2)>>,
     <<Rat(16, 1), Rat(1, 5), Rat(3, 1), Rat(-1, 1)>>,
     <<Rat(500, 1), One, Zero, Rat(1, 2)>> >>

\* The buffers: each pixel alone, and two pixels in a row and in a column.
ToneBuffers ==
  {[width |-> 1, height |-> 1, pixels |-> <<TonePixels[k]>>] : k \in 1..Len(TonePixels)}
    \cup {[width |-> 2, height |-> 1, pixels |-> <<TonePixels[1], TonePixels[2]>>],
          [width |-> 1, height |-> 2, pixels |-> <<TonePixels[3], TonePixels[4]>>]}

\* The Float64Array holding the pixels in order.
ToneArray(pixels) ==
  [kind |-> 64,
   elems |-> [k \in 1..(4 * Len(pixels)) |-> pixels[((k - 1) \div 4) + 1][((k - 1) % 4) + 1]]]

ToneInit ==
  \E b \in ToneBuffers :
    /\ objs = << [width |-> b.width, height |-> b.height, depth |-> 64, data |-> 1] >>
    /\ heap = << ToneArray(b.pixels) >>
    /\ last = NoCall
    /\ before = [heap |-> heap, objs |-> objs]
    /\ nops = 0
    /\ mappers = <<>>

\* Options naming an algorithm.
Named(name, exposure, gamma, outputDepth) ==
  [algorithm |-> [isFunction |-> FALSE, name |-> name],
   exposure |-> exposure, gamma |-> gamma, outputDepth |-> outputDepth]

\* The stops of exposure tried: deep underexposure and one stop up.
Exposures == {<<>>, <<-13>>, <<1>>}
Gammas == {<<One>>, <<Rat(2, 1)>>, <<Rat(1, 2)>>}
OutputDepths == {<<>>, <<8>>, <<16>>}

\* Options the constructor accepts: clamp and reinhard with every exposure,
\* gamma and depth; aces at the exposures and gammas that keep its values
\* small; the defaults; a custom function.
ValidOptions ==
  {Named(n, e, g, d) : n \in {"clamp", "reinhard"}, e \in Exposures, g \in Gammas,
                       d \in OutputDepths}
    \cup {Named("aces", e, g, d) : e \in {<<>>, <<1>>}, g \in {<<One>>, <<Rat(2, 1)>>},
                                   d \in {<<>>, <<16>>}}
    \cup {Named("clamp", <<>>, <<>>, <<>>)}
    \cup {[algorithm |-> [isFunction |-> TRUE, name |-> "custom"],
           exposure |-> <<>>, gamma |-> g, outputDepth |-> <<8>>] :
            g \in {<<One>>, <<Zero>>}}

\* Names that are not algorithms, gammas that are not positive, depths that
\* are neither 8 nor 16.
InvalidOptions ==
  {Named(n, <<>>, <<One>>, <<8>>) : n \in {"bogus", "", "toString", "constructor"}}
    \cup {Named("clamp", <<>>, <<g>>, <<16>>) : g \in {Zero, Rat(-1, 1), Rat(-1, 2)}}
    \cup {Named("reinhard", <<>>, <<One>>, <<d>>) : d \in {0, 12, 32}}
    \cup {Named("bogus", <<1>>, <<Zero>>, <<12>>)}

DoNewToneMapper ==
  /\ CanCall
  /\ \E options \in ValidOptions \cup InvalidOptions :
       LET out == NewToneMapper(options)
       IN  /\ last' = [op |-> "newToneMapper", self |-> 0, args |-> <<options>>,
                       threw |-> out.threw, ret |-> out.ret]
           /\ mappers' = IF out.threw THEN mappers ELSE Append(mappers, out.ret)
           /\ before' = [heap |-> heap, objs |-> objs]
           /\ nops' = nops + 1
           /\ UNCHANGED <<heap, objs>>

\* map is called on the mappers of a built-in algorithm whose power the
\* model computes.
DoMap ==
  /\ CanCall
  /\ \E k \in 1..Len(mappers), self \in Selves :
       /\ mappers[k].mapFn \in OwnAlgorithms
       /\ Computes(mappers[k].invGamma, mappers[k].maxVal)
       /\ last' = [op |-> "map", self |-> self, args |-> <<k>>, threw |-> FALSE,
                   ret |-> Map(mappers[k], objs[self], heap[objs[self].data])]
       /\ before' = [heap |-> heap, objs |-> objs]
       /\ nops' = nops + 1
       /\ UNCHANGED <<heap, objs, mappers>>

\* The values the range-compression functions are called with.
ToneValues ==
  {Rat(-1, 1), Rat(-1, 2), Rat(-1, 8), Zero, Rat(1, 8), Rat(1, 5), Rat(1, 4),
   Rat(1, 2), Rat(3, 4), One, Rat(3, 2), Rat(2, 1), Rat(3, 1), Rat(16, 1), Rat(100, 1),
   Rat(500, 1)}

\* clamp(v), reinhard(v) or aces(v), called directly.
DoRangeCompress ==
  /\ CanCall
  /\ \E fn \in OwnAlgorithms, v \in ToneValues :
       /\ last' = [op |-> fn, self |-> 0, args |-> <<v>>, threw |-> FALSE,
                   ret |-> ApplyMapFn(fn, v)]
       /\ before' = [heap |-> heap, objs |-> objs]
       /\ nops' = nops + 1
       /\ UNCHANGED <<heap, objs, mappers>>

ToneNext ==
  \/ DoNewToneMapper
  \/ DoMap
  \/ DoRangeCompress

ToneSpec == ToneInit /\ [][ToneNext]_vars

\* ------------------------------------------------------- ToneMapper claims
\* The mapper and the input array of the last map call.
Mapper == mappers[Arg(1)]
Input == heap[Self.data]

\* The value a/b of aces for v = n/d >= 0 before the clamp, from the
\* rational fit with numerator and denominator multiplied by 100 * d^2.
AcesFit(v) ==
  Rat(v[1] * (251 * v[1] + 3 * v[2]),
      v[1] * (243 * v[1] + 59 * v[2]) + 14 * v[2] * v[2])

\* What the claim says fn returns for v.
Compressed(fn, v) ==
  IF RLess(v, Zero) THEN Zero
  ELSE CASE fn = "clamp" -> IF RLess(One, v) THEN One ELSE v
         [] fn = "reinhard" -> Rat(v[1], v[2] + v[1])
         [] fn = "aces" -> IF RLess(One, AcesFit(v)) THEN One ELSE AcesFit(v)

\* round(clamp01(rangeCompress(v * 2^exposure) ^ (1/gamma)) * maxIntValue),
\* computed directly for the mapper m.
Direct(m, v) ==
  RoundTimes(ClampPower(MathPow(Compressed(m.mapFn, RMul(v, m.exposureMultiplier)),
                                m.invGamma)),
             IF m.outputDepth = 16 THEN 65535 ELSE 255)

\* The same with the range-compressed value first rounded to the nearest
\* multiple of 1/4096.
ViaTable(m, v) ==
  LET mapped == Compressed(m.mapFn, RMul(v, m.exposureMultiplier))
      i == MathRound(RMul(mapped, Rat(4096, 1)))
  IN  RoundTimes(MathPow(Rat(i, 4096), m.invGamma), 255)

\* round(clamp01(a) * maxIntValue) for the output depth.
DirectAlpha(outputDepth, a) ==
  RoundTimes([base |-> Clamp(a), root |-> 1], IF outputDepth = 16 THEN 65535 ELSE 255)

\* The mapper is clamp, exposure 0, gamma 1, 8-bit.
IsPlainClamp(m) ==
  /\ m.mapFn = "clamp" /\ m.exposureMultiplier = One
  /\ m.invGamma = One /\ m.outputDepth = 8

IsNumber(m, v) == ~IsNaN(ApplyMapFn(m.mapFn, FMul(v, m.exposureMultiplier)))

ComparedMappers ==
  {NewToneMapper(o).ret : o \in {v \in ValidOptions : ~v.algorithm.isFunction /\ v.gamma # <<>>}}

\* C15: every alpha value map returns is round(clamp01(a) * maxIntValue),
\* and any mapper of the same output depth, whatever its algorithm, exposure
\* and gamma, applied to any buffer with the same alpha values returns the
\* same alpha values.
C15_AlphaIndependent ==
  Returned("map") =>
    /\ \A k \in 1..Len(last.ret) :
         k % 4 = 0 => last.ret[k] = DirectAlpha(Mapper.outputDepth, Input.elems[k])
    /\ \A m \in ComparedMappers, b \in ToneBuffers :
         LET arr == ToneArray(b.pixels)
             same == /\ m.outputDepth = Mapper.outputDepth
                     /\ Computes(m.invGamma, m.maxVal)
                     /\ Len(arr.elems) = Len(Input.elems)
                     /\ \A k \in 1..Len(arr.elems) : k % 4 = 0 => arr.elems[k] = Input.elems[k]
         IN  same => \A k \in 1..Len(arr.elems) :
                       k % 4 = 0 => Map(m, b, arr)[k] = last.ret[k]

\* A reinhard mapper with exposure and gamma set mapped a pixel of alpha
\* 1.5 at 16 bits: the alpha came out at full scale.
C15_Witness ==
  /\ Returned("map")
  /\ Mapper.mapFn = "reinhard"
  /\ Mapper.exposureMultiplier # One /\ Mapper.invGamma # One
  /\ Mapper.outputDepth = 16
  /\ Input.elems[4] = Rat(3, 2)
  /\ last.ret[4] = 65535

\* C16 as claimed: every R, G and B value of an 8-bit map differs by at
\* most 1 from round(clamp01(rangeCompress(v * 2^exposure) ^ (1/gamma)) *
\* 255) computed directly.
C16_TableWithinOne ==
  (Returned("map") /\ Mapper.outputDepth = 8) =>
    \A k \in 1..Len(last.ret) :
      k % 4 # 0 => Abs(last.ret[k] - Direct(Mapper, Input.elems[k])) <= 1

\* C17: clamp, reinhard and aces return a value in [0, 1], 0 for negative
\* v, never less for a larger v; clamp(v) = min(1, max(0, v)), reinhard(v) =
\* v/(1+v) and aces(v) = the clamped rational fit for v >= 0, with
\* reinhard(0) = 0, reinhard(1) = 1/2 and aces(0) = 0.
C17_RangeCompression ==
  last.op \in OwnAlgorithms =>
    /\ ~FLess(last.ret, Zero) /\ ~FLess(One, last.ret) /\ ~IsNaN(last.ret)
    /\ RLess(Arg(1), Zero) => last.ret = Zero
    /\ last.ret = Compressed(last.op, Arg(1))
    /\ \A u \in ToneValues :
         RLeq(u, Arg(1)) => ~FLess(last.ret, ApplyMapFn(last.op, u))
                              /\ ~IsNaN(ApplyMapFn(last.op, u))
    /\ (last.op = "reinhard" /\ Arg(1) = Zero) => last.ret = Zero
    /\ (last.op = "reinhard" /\ Arg(1) = One) => last.ret = Rat(1, 2)
    /\ (last.op = "aces" /\ Arg(1) = Zero) => last.ret = Zero

\* C18 as claimed: new ToneMapper(options) throws exactly when the
\* algorithm is a name other than clamp, reinhard and aces, or gamma <= 0,
\* or the output depth is neither 8 nor 16.
C18_ConstructionValidation ==
  last.op = "newToneMapper" =>
    LET o == Arg(1)
        recognised == o.algorithm.isFunction \/ o.algorithm.name \in {"clamp", "reinhard", "aces"}
        gammaOk == o.gamma = <<>> \/ RLess(Zero, o.gamma[1])
        depthOk == o.outputDepth = <<>> \/ o.outputDepth[1] \in {8, 16}
    IN  last.threw <=> ~(recognised /\ gammaOk /\ depthOk)

\* ---------------------------------------------------------------------
\* PNGExporter: the pHYs chunk and its checksum.
\*
\* A byte is a number in 0..255.  A non-negative integer is a pair
\* <<hi, lo>> standing for hi * 65536 + lo with lo in 0..65535; a 32-bit
\* word is such a pair with hi in 0..65535 too.  The signed and unsigned
\* readings JavaScript gives a 32-bit word are the same pair.
\* ---------------------------------------------------------------------

\* a ^ b on non-negative integers.
RECURSIVE BitXor(_, _)
BitXor(a, b) ==
  IF a = 0 THEN b
  ELSE IF b = 0 THEN a
       ELSE 2 * BitXor(a \div 2, b \div 2) + ((a + b) % 2)

\* a ^ b on 32-bit words.
WordXor(a, b) == <<BitXor(a[1], b[1]), BitXor(a[2], b[2])>>

\* c >>> 1 and c >>> 8.
ShiftRight1(c) == <<c[1] \div 2, (c[1] % 2) * 32768 + c[2] \div 2>>
ShiftRight8(c) == <<c[1] \div 256, (c[1] % 256) * 256 + c[2] \div 256>>

\* 0xedb88320 and 0xffffffff.
Polynomial == <<60856, 33568>>
AllOnes == <<65535, 65535>>

\* The inner loop that builds a table entry: k more steps on c.
RECURSIVE TableSteps(_, _)
TableSteps(c, k) ==
  IF k = 0 THEN c
  ELSE IF c[2] % 2 = 1 THEN TableSteps(WordXor(Polynomial, ShiftRight1(c)), k - 1)
       ELSE TableSteps(ShiftRight1(c), k - 1)

CRC_TABLE == [n \in 0..255 |-> TableSteps(<<0, n>>, 8)]

\* The loop of crc32 from byte i on.  An index outside the table reads
\* undefined, which ^ takes for 0.
RECURSIVE Crc32From(_, _, _)
Crc32From(crc, data, i) ==
  IF i > Len(data) THEN crc
  ELSE LET index == WordXor(crc, <<0, data[i]>>)[2] % 256
       IN  IF index \in DOMAIN CRC_TABLE
           THEN Crc32From(WordXor(CRC_TABLE[index], ShiftRight8(crc)), data, i + 1)
           ELSE Crc32From(ShiftRight8(crc), data, i + 1)

crc32(data) == WordXor(Crc32From(AllOnes, data, 1), AllOnes)

\* Math.round(dpi / 0.0254) for a rational dpi > 0 of denominator at most
\* 258: dpi * 5000 / 127 to the nearest integer, a half going up.  The
\* integer is not bounded by 32 bits.
dpiToPixelsPerMeter(dpi) ==
  LET d == 127 * dpi[2]
      h == MulDiv(dpi[1], 5000, d * 65536)
      lo == h[2] \div d + (IF 2 * (h[2] % d) >= d THEN 1 ELSE 0)
  IN  IF lo = 65536 THEN <<h[1] + 1, 0>> ELSE <<h[1], lo>>

\* DataView.setUint32(offset, value, false): the value modulo 2^32 as four
\* bytes, the most significant first.
BytesWrapped(value) ==
  <<value[1] \div 256, value[1] % 256, value[2] \div 256, value[2] % 256>>
SetUint32(value) == BytesWrapped(<<value[1] % 65536, value[2]>>)

\* chunk.slice(4, 17).
CrcDataWithLength(chunk) == SubSeq(chunk, 1, 17)
CrcData(chunk) == SubSeq(chunk, 5, 17)

buildPHYsChunk(dpi) ==
  LET ppm == dpiToPixelsPerMeter(dpi)
      head == SetUint32(<<0, 9>>) \o <<112, 72, 89, 115>> \o SetUint32(ppm)
                \o SetUint32(ppm) \o <<1>>
  IN  head \o SetUint32(crc32(CrcData(head)))

\* The resolutions tried: those of the tests and of print, fractions, one
\* whose density needs more than 16 bits, and the resolutions either side
\* of a density of 2^32.
Dpis ==
  {Rat(n, 1) : n \in {1, 72, 96, 150, 300, 600, 1200, 2540, 109092169, 109092170,
                      200000000}}
    \cup {Rat(1, 2), Rat(1, 100), Rat(254, 100), Rat(725, 10)}

\* "123456789".
CheckString == <<49, 50, 51, 52, 53, 54, 55, 56, 57>>

\* The byte sequences crc32 is called with: the empty one, every single
\* byte, pairs, "123456789", and the checksummed part of a chunk.
ByteSequences ==
  {<<>>, CheckString}
    \cup {<<b>> : b \in 0..255}
    \cup {<<a, b>> : a \in {0, 1, 128, 255}, b \in {0, 1, 127, 255}}
    \cup {<<a, 0, 0, b>> : a \in {0, 255}, b \in {0, 255}}
    \cup {CrcData(buildPHYsChunk(dpi)) : dpi \in {Rat(72, 1), Rat(300, 1)}}

\* A Uint8Array is the sequence of its bytes; index i of the source is
\* position i + 1.
\* new Uint8Array(length): all zeros.
NewBytes(length) == [k \in 1..length |-> 0]

\* arr.subarray(begin, end): both ends are clamped to the array.
ByteSubarray(arr, begin, end) ==
  LET b == IF begin > Len(arr) THEN Len(arr) ELSE begin
      e == IF end > Len(arr) THEN Len(arr) ELSE end
  IN  SubSeq(arr, b + 1, e)

\* Fault: the source lands one byte early.
ByteSetEarly(dst, src, offset) ==
  IF offset + Len(src) > Len(dst)
  THEN [threw |-> TRUE, arr |-> dst]
  ELSE [threw |-> FALSE,
        arr |-> [k \in 1..Len(dst) |->
                   IF k > offset - 1 /\ k <= offset - 1 + Len(src) /\ k >= 1
                   THEN src[k - offset + 1] ELSE dst[k]]]

\* dst.set(src, offset): a RangeError when src does not fit at offset.
ByteSet(dst, src, offset) ==
  IF offset + Len(src) > Len(dst)
  THEN [threw |-> TRUE, arr |-> dst]
  ELSE [threw |-> FALSE,
        arr |-> [k \in 1..Len(dst) |->
                   IF k > offset /\ k <= offset + Len(src) THEN src[k - offset]
                   ELSE dst[k]]]

\* The end of the IHDR chunk: 8 bytes of signature and 25 of chunk.
IHDR_END == 8 + 25

\* The bytes injectPHYs compares with the start of the file.
CheckedSignature == <<137, 80, 78, 71>>

\* The check of injectPHYs: a byte beyond the end of the file reads
\* undefined and differs.
NotPng(png) ==
  \E k \in 1..Len(CheckedSignature) : k > Len(png) \/ png[k] # CheckedSignature[k]

\* injectPHYs(png, dpi): whether it threw and with what, the input array
\* after the call, and the array returned.
injectPHYs(png, dpi) ==
  IF NotPng(png)
  THEN [threw |-> TRUE, error |-> "Not a valid PNG file", png |-> png, ret |-> <<>>]
  ELSE LET phys == buildPHYsChunk(dpi)
           first == ByteSet(NewBytes(Len(png) + Len(phys)),
                            ByteSubarray(png, 0, IHDR_END), 0)
           second == ByteSet(first.arr, phys, IHDR_END)
           third == ByteSet(second.arr, ByteSubarray(png, IHDR_END, Len(png)),
                            IHDR_END + Len(phys))
       IN  IF first.threw \/ second.threw \/ third.threw
           THEN [threw |-> TRUE, error |-> "RangeError", png |-> png, ret |-> <<>>]
           ELSE [threw |-> FALSE, error |-> "", png |-> png, ret |-> third.arr]

\* The PNG signature and the chunks of a 1 x 1 RGBA image of depth 8.
Signature == <<137, 80, 78, 71, 13, 10, 26, 10>>
Ihdr ==
  <<0, 0, 0, 13, 73, 72, 68, 82, 0, 0, 0, 1, 0, 0, 0, 1, 8, 6, 0, 0, 0, 31, 21, 196, 137>>
Idat ==
  <<0, 0, 0, 13, 73, 68, 65, 84, 120, 156, 99, 104, 104, 104, 248, 15, 0, 5, 132, 2, 128,
    140, 205, 102, 38>>
Iend == <<0, 0, 0, 0, 73, 69, 78, 68, 174, 66, 96, 130>>

\* seq with byte b at position k.
WithByte(seq, k, b) == [seq EXCEPT ![k] = b]

\* The files injectPHYs is given: PNG files, files cut short, files whose
\* signature is wrong in one of its 8 bytes, and files that are no PNG.
Files ==
  LET png == Signature \o Ihdr \o Idat \o Iend
  IN  {png, Signature \o Ihdr \o Iend, Signature \o Ihdr, Signature \o Ihdr \o <<0>>}
        \cup {SubSeq(png, 1, n) : n \in {0, 1, 3, 4, 8, 32}}
        \cup {WithByte(png, k, 0) : k \in 1..8}
        \cup {WithByte(Signature \o Ihdr, 6, 13), <<255, 216, 255, 224>> \o Ihdr \o Iend,
              <<137, 80, 78, 71, 0, 0, 0, 0>>}

PngInit ==
  /\ objs = <<>>
  /\ heap = <<>>
  /\ last = NoCall
  /\ before = [heap |-> heap, objs |-> objs]
  /\ nops = 0
  /\ mappers = <<>>

\* A call of a function of PNGExporter.ts that returned ret.
PngCall(op, args, ret) ==
  /\ last' = [op |-> op, self |-> 0, args |-> args, threw |-> FALSE, ret |-> ret]
  /\ before' = [heap |-> heap, objs |-> objs]
  /\ nops' = nops + 1
  /\ UNCHANGED <<heap, objs, mappers>>

DoDpiToPixelsPerMeter ==
  /\ CanCall
  /\ \E dpi \in Dpis : PngCall("dpiToPixelsPerMeter", <<dpi>>, dpiToPixelsPerMeter(dpi))

DoCrc32 ==
  /\ CanCall
  /\ \E data \in ByteSequences : PngCall("crc32", <<data>>, crc32(data))

DoBuildPHYsChunk ==
  /\ CanCall
  /\ \E dpi \in Dpis : PngCall("buildPHYsChunk", <<dpi>>, buildPHYsChunk(dpi))

\* injectPHYs(png, dpi); the heap holds the caller's array after the call.
DoInjectPHYs ==
  /\ CanCall
  /\ \E png \in Files, dpi \in {Rat(72, 1), Rat(300, 1)} :
       LET out == injectPHYs(png, dpi)
       IN  /\ last' = [op |-> "injectPHYs", self |-> 0, args |-> <<png, dpi>>,
                       threw |-> out.threw,
                       ret |-> IF out.threw THEN <<out.error>> ELSE out.ret]
           /\ heap' = <<out.png>>
           /\ before' = [heap |-> heap, objs |-> objs]
           /\ nops' = nops + 1
           /\ UNCHANGED <<objs, mappers>>

PngNext ==
  \/ DoDpiToPixelsPerMeter
  \/ DoCrc32
  \/ DoBuildPHYsChunk
  \/ DoInjectPHYs

PngSpec == PngInit /\ [][PngNext]_vars

\* ---------------------------------------------------------------------
\* PNGExporter: claims.
\* ---------------------------------------------------------------------

\* The integer four bytes spell, the most significant first.
BigEndian(bytes) == <<bytes[1] * 256 + bytes[2], bytes[3] * 256 + bytes[4]>>

\* C19 as claimed: the pHYs chunk built for a dpi > 0 is 21 bytes: the
\* length 9, the tag 'pHYs', the X density round(dpi / 0.0254), the Y
\* density equal to X, the unit 1, all big-endian, then 4 bytes of CRC;
\* 300 dpi is 11811, 72 dpi 2835 and 150 dpi 5906 pixels per metre.
C19_PHYsChunk ==
  /\ Returned("buildPHYsChunk") =>
       LET chunk == last.ret
       IN  /\ Len(chunk) = 21
           /\ \A k \in 1..21 : chunk[k] \in 0..255
           /\ BigEndian(SubSeq(chunk, 1, 4)) = <<0, 9>>
           /\ SubSeq(chunk, 5, 8) = <<112, 72, 89, 115>>
           /\ BigEndian(SubSeq(chunk, 9, 12)) = dpiToPixelsPerMeter(Arg(1))
           /\ SubSeq(chunk, 13, 16) = SubSeq(chunk, 9, 12)
           /\ chunk[17] = 1
           /\ Arg(1) = Rat(300, 1) => SubSeq(chunk, 9, 12) = <<0, 0, 46, 35>>
           /\ Arg(1) = Rat(72, 1) => SubSeq(chunk, 9, 12) = <<0, 0, 11, 19>>
           /\ Arg(1) = Rat(150, 1) => SubSeq(chunk, 9, 12) = <<0, 0, 23, 18>>
  /\ Returned("dpiToPixelsPerMeter") =>
       /\ Arg(1) = Rat(300, 1) => last.ret = <<0, 11811>>
       /\ Arg(1) = Rat(72, 1) => last.ret = <<0, 2835>>
       /\ Arg(1) = Rat(150, 1) => last.ret = <<0, 5906>>

\* The CRC-32 register after k more shifts, bit by bit: the register is
\* shifted right by one and the polynomial 0xEDB88320 is XORed in when a 1
\* was shifted out.
RECURSIVE ShiftOut(_, _)
ShiftOut(reg, k) ==
  IF k = 0 THEN reg
  ELSE LET shifted == <<reg[1] \div 2, (reg[1] % 2) * 32768 + reg[2] \div 2>>
       IN  IF reg[2] % 2 = 1
           THEN ShiftOut(<<BitXor(shifted[1], 60856), BitXor(shifted[2], 33568)>>, k - 1)
           ELSE ShiftOut(shifted, k - 1)

\* The register after the bytes of the data from byte i on: a byte is
\* XORed into the low bits of the register, then shifted out in 8 steps;
\* the register is 32 bits wide.
RECURSIVE StandardFrom(_, _, _)
StandardFrom(reg, data, i) ==
  IF i > Len(data) THEN reg
  ELSE LET next == ShiftOut(<<reg[1], BitXor(reg[2], data[i])>>, 8)
       IN  IF next[1] < 65536
           THEN StandardFrom(next, data, i + 1)
           ELSE StandardFrom(<<next[1] % 65536, next[2]>>, data, i + 1)

\* The standard reflected CRC-32 of a byte sequence: the register starts
\* at 0xFFFFFFFF and is complemented at the end.
StandardCrc32(data) ==
  LET reg == StandardFrom(<<65535, 65535>>, data, 1)
  IN  <<65535 - reg[1], 65535 - reg[2]>>

\* C20: the last 4 bytes of the pHYs chunk are the standard reflected
\* CRC-32 (polynomial 0xEDB88320, initial value and final XOR 0xFFFFFFFF),
\* unsigned and big-endian, of the 13 bytes of tag and data, the length
\* field excluded; crc32 returns the bit-by-bit CRC-32 of every byte
\* sequence ("123456789" has 0xCBF43926, the chunks of 72 and 300 dpi
\* have 0x009A9C18 and 0x78A53F76).
C20_ChunkCrc ==
  /\ Returned("buildPHYsChunk") =>
       /\ BigEndian(SubSeq(last.ret, 18, 21)) = StandardCrc32(SubSeq(last.ret, 5, 17))
       /\ Arg(1) = Rat(72, 1) => SubSeq(last.ret, 18, 21) = <<0, 154, 156, 24>>
       /\ Arg(1) = Rat(300, 1) => SubSeq(last.ret, 18, 21) = <<120, 165, 63, 118>>
  /\ Returned("crc32") =>
       /\ last.ret = StandardCrc32(Arg(1))
       /\ last.ret[1] \in 0..65535 /\ last.ret[2] \in 0..65535
       /\ Arg(1) = CheckString => last.ret = <<52212, 14630>>

\* A chunk was built whose density needs more than 16 bits, with its
\* checksum.
C20_Witness ==
  /\ Returned("buildPHYsChunk")
  /\ Arg(1) = Rat(2540, 1)
  /\ SubSeq(last.ret, 9, 12) = <<0, 1, 134, 160>>
  /\ SubSeq(last.ret, 18, 21) = <<39, 22, 100, 162>>

\* C21 as claimed: injectPHYs throws 'Not a valid PNG file' and returns
\* nothing for every input whose first 8 bytes are not the PNG signature
\* 89 50 4E 47 0D 0A 1A 0A, also when the first 4 bytes match.
C21_SignatureValidated ==
  (last.op = "injectPHYs"
     /\ (Len(Arg(1)) < 8 \/ SubSeq(Arg(1), 1, 8) # <<137, 80, 78, 71, 13, 10, 26, 10>>))
    => last.threw /\ last.ret = <<"Not a valid PNG file">>

\* C22: for every file injectPHYs accepts, the result is input.length + 21
\* bytes: input[0..33), the 21-byte pHYs chunk, then input[33..); the input
\* array is as it was, and no byte of it is altered or reordered in the
\* result.
C22_ChunkInserted ==
  Returned("injectPHYs") =>
    LET input == Arg(1)
        n == Len(input)
    IN  /\ Len(last.ret) = n + 21
        /\ n >= 33
        /\ SubSeq(last.ret, 1, 33) = SubSeq(input, 1, 33)
        /\ SubSeq(last.ret, 34, 54) = buildPHYsChunk(Arg(2))
        /\ SubSeq(last.ret, 55, n + 21) = SubSeq(input, 34, n)
        /\ heap = <<input>>

\* A file with chunks after its header was given the chunk of 300 dpi.
C22_Witness ==
  /\ Returned("injectPHYs")
  /\ Arg(1) = Signature \o Ihdr \o Idat \o Iend
  /\ Arg(2) = Rat(300, 1)
  /\ SubSeq(last.ret, 38, 50) = <<112, 72, 89, 115, 0, 0, 46, 35, 0, 0, 46, 35, 1>>
  /\ SubSeq(last.ret, 55, 62) = <<0, 0, 0, 13, 73, 68, 65, 84>>

\* ------------------------------------------------------- PNGExporter.export
\* A chunk of a PNG file: the length of its data, its tag, the data and the
\* checksum of tag and data.
Chunk(type, data) ==
  SetUint32(<<0, Len(data)>>) \o type \o data \o SetUint32(crc32(type \o data))

\* The Adler-32 sums of a zlib stream, from byte i on.
RECURSIVE Adler32From(_, _, _, _)
Adler32From(a, b, data, i) ==
  IF i > Len(data) THEN <<b, a>>
  ELSE LET next == (a + data[i]) % 65521
       IN  IF next >= 0 THEN Adler32From(next, (b + next) % 65521, data, i + 1)
           ELSE <<b, a>>

\* The bytes of one sample: one at depth 8, two at depth 16, the most
\* significant first.
SampleBytes(depth, v) == IF depth = 16 THEN <<v \div 256, v % 256>> ELSE <<v>>

\* The bytes of samples k..count of the row that starts after elems[start].
RECURSIVE RowBytes(_, _, _, _, _)
RowBytes(depth, elems, start, k, count) ==
  IF k > count THEN <<>>
  ELSE SampleBytes(depth, elems[start + k]) \o RowBytes(depth, elems, start, k + 1, count)

\* The rows of the image from row y on, each after its filter byte 0.
RECURSIVE Scanlines(_, _, _, _, _)
Scanlines(width, height, depth, elems, y) ==
  IF y >= height THEN <<>>
  ELSE <<0>> \o RowBytes(depth, elems, y * width * 4, 1, width * 4)
         \o Scanlines(width, height, depth, elems, y + 1)

\* A zlib stream holding raw in one stored block.
Deflated(raw) ==
  <<120, 1, 1, Len(raw) % 256, Len(raw) \div 256, 255 - (Len(raw) % 256),
    255 - (Len(raw) \div 256)>> \o raw \o SetUint32(Adler32From(1, 0, raw, 1))

\* encode({width, height, data, depth, channels: 4}) of the PNG library:
\* it fails for a depth that is neither 8 nor 16 and otherwise produces a
\* complete file: signature, IHDR, the image in IDAT, IEND.
Encode(image) ==
  IF image.depth # 8 /\ image.depth # 16
  THEN [threw |-> TRUE, error |-> "unsupported bit depth", ret |-> <<>>]
  ELSE [threw |-> FALSE, error |-> "",
        ret |-> Signature
                  \o Chunk(<<73, 72, 68, 82>>,
                           SetUint32(<<0, image.width>>) \o SetUint32(<<0, image.height>>)
                             \o <<image.depth, 6, 0, 0, 0>>)
                  \o Chunk(<<73, 68, 65, 84>>,
                           Deflated(Scanlines(image.width, image.height, image.depth,
                                              image.data, 0)))
                  \o Chunk(<<73, 69, 78, 68>>, <<>>)]

\* `${n}` for a number with at most two decimals.
NumberToString(n) ==
  LET sign == IF n[1] < 0 THEN "-" ELSE ""
      whole == Abs(n[1]) \div n[2]
      hundredths == ((Abs(n[1]) % n[2]) * 100) \div n[2]
  IN  IF n[2] = 1 THEN ToString(n[1])
      ELSE IF hundredths % 10 = 0
           THEN sign \o ToString(whole) \o "." \o ToString(hundredths \div 10)
           ELSE sign \o ToString(whole) \o "." \o ToString(hundredths \div 10)
                  \o ToString(hundredths % 10)

ExportThrew(error) == [threw |-> TRUE, error |-> error, ret |-> <<>>]

\* Fault: a resolution of 0 passes.
DpiNegative(dpi) == dpi[1] < 0
\* dpi <= 0.
DpiNotPositive(dpi) == dpi[1] <= 0

\* data.length !== width * height * 4.
LengthMismatch(data, width, height) == Len(data.elems) # width * height * 4

\* The result of export: the file with its resolution, the MIME type and
\* the name.
ExportResult(options, pngWithDpi) ==
  IF pngWithDpi.threw THEN ExportThrew(pngWithDpi.error)
  ELSE [threw |-> FALSE, error |-> "",
        ret |-> [data |-> pngWithDpi.ret,
                 mimeType |-> "image/png",
                 filename |-> "artwork-" \o ToString(options.width) \o "x"
                                \o ToString(options.height) \o "-"
                                \o NumberToString(options.dpi) \o "dpi.png"]]

\* export from the return of encode on.
WithDPI(options, pngBytes) ==
  IF pngBytes.threw THEN ExportThrew(pngBytes.error)
  ELSE ExportResult(options, injectPHYs(pngBytes.ret, options.dpi))

\* options.depth, 8 when omitted.
DepthOf(options) == IF options.depth = <<>> THEN 8 ELSE options.depth[1]

\* PNGExporter.export(data, options): data is [kind, elems], kind the class
\* of the typed array; options is [width, height, dpi, depth], depth <<>>
\* when omitted.
Export(data, options) ==
  IF options.width <= 0 \/ options.height <= 0 THEN ExportThrew("Invalid dimensions")
  ELSE IF DpiNotPositive(options.dpi) THEN ExportThrew("DPI must be positive")
  ELSE IF LengthMismatch(data, options.width, options.height)
       THEN ExportThrew("Data length mismatch")
  ELSE IF DepthOf(options) = 16 /\ data.kind # "Uint16Array"
       THEN ExportThrew("16-bit depth requires Uint16Array input")
  ELSE IF DepthOf(options) = 8 /\ data.kind # "Uint8Array"
       THEN ExportThrew("8-bit depth requires Uint8Array input")
  ELSE WithDPI(options,
               Encode([width |-> options.width, height |-> options.height,
                       data |-> data.elems, depth |-> DepthOf(options)]))

\* ---------------------------------------------------------- exportBuffer
\* What exportBuffer did, in order: a call of the progress callback with a
\* value, or one of its three steps.
Progress(percent) == [kind |-> "progress", value |-> percent]
Step(name) == [kind |-> name, value |-> -1]

\* Fault: every report is of half the value.
ReportHalved(options, percent) ==
  IF options.onProgress THEN <<Progress(percent \div 2)>> ELSE <<>>
\* onProgress?.(percent): a call when a callback is given.
Report(options, percent) == IF options.onProgress THEN <<Progress(percent)>> ELSE <<>>

ExportFailed(error, events) ==
  [threw |-> TRUE, error |-> error, events |-> events, ret |-> <<>>]

\* Fault: the format is looked at after the first progress report.
FormatCheckedLate(options) == Report(options, 0)
\* What happened before the format is checked: nothing.
FormatCheckedFirst(options) == <<>>

\* Fault: the outcome of the encoding is looked at after the last report.
EncodedReportsFirst(options, events, result) ==
  LET all == events \o Report(options, 90) \o <<Step("blob")>> \o Report(options, 100)
  IN  IF result.threw THEN ExportFailed(result.error, all)
      ELSE [threw |-> FALSE, error |-> "", events |-> all,
            ret |-> [type |-> "image/png", bytes |-> result.ret.data]]
\* exportBuffer from the return of pngExporter.export on: the report of 90,
\* the Blob and the report of 100.
Encoded(options, events, result) ==
  IF result.threw THEN ExportFailed(result.error, events)
  ELSE [threw |-> FALSE, error |-> "",
        events |-> events \o Report(options, 90) \o <<Step("blob")>>
                     \o Report(options, 100),
        ret |-> [type |-> "image/png", bytes |-> result.ret.data]]

\* exportBuffer from the construction of the ToneMapper on: map, the
\* report of 50 and the encoding at depth 8.
Constructed(o, arr, options, toneMapper) ==
  IF toneMapper.threw THEN ExportFailed("ToneMapper", Report(options, 0))
  ELSE Encoded(options,
               Report(options, 0) \o <<Step("map")>> \o Report(options, 50)
                 \o <<Step("export")>>,
               Export([kind |-> "Uint8Array", elems |-> Map(toneMapper.ret, o, arr)],
                      [width |-> o.width, height |-> o.height, dpi |-> options.dpi,
                       depth |-> <<8>>]))

\* exportBuffer(buffer, options) on the buffer o with array arr.  options is
\* [toneMap, exposure, gamma, format, dpi, onProgress]: the first four are
\* <<>> when omitted and <<v>> when given, onProgress says whether a
\* callback is given.  The result is [threw, error, events, ret].
ExportBuffer(o, arr, options) ==
  IF options.format # <<>> /\ options.format # <<"png">>
  THEN ExportFailed("Unsupported export format", FormatCheckedFirst(options))
  ELSE Constructed(o, arr, options,
                   NewToneMapper(Named(IF options.toneMap = <<>> THEN "reinhard"
                                       ELSE options.toneMap[1],
                                       options.exposure, options.gamma, <<8>>)))

\* The values the callback was called with, in order.
Reported(events) ==
  LET calls == SelectSeq(events, LAMBDA e : e.kind = "progress")
  IN  [k \in 1..Len(calls) |-> calls[k].value]

\* The buffers exported: one pixel, and two in a row.
ExportBuffers == {b \in ToneBuffers : b.width = 2 \/ b.pixels = <<TonePixels[1]>>}

\* The buffer, and the array the caller's progress callback pushes to.
ExportInit ==
  \E b \in ExportBuffers :
    /\ objs = << [width |-> b.width, height |-> b.height, depth |-> 64, data |-> 1] >>
    /\ heap = << ToneArray(b.pixels), [kind |-> "Array", elems |-> <<>>] >>
    /\ last = NoCall
    /\ before = [heap |-> heap, objs |-> objs]
    /\ nops = 0
    /\ mappers = <<>>

\* The arrays export is given: one and two pixels of bytes and of 16-bit
\* words, and an empty one.
ExportData ==
  {[kind |-> "Uint8Array", elems |-> e] :
     e \in {<<>>, <<255, 0, 0, 255>>, <<128, 128, 128, 255, 0, 10, 13, 26>>}}
    \cup {[kind |-> "Uint16Array", elems |-> e] :
            e \in {<<65535, 0, 32768, 65535>>, <<0, 1, 256, 257, 65535, 0, 0, 1>>}}

\* Sizes, right and wrong; resolutions: none, a negative one, fractions,
\* that of print, and the first whose density does not fit 32 bits; depths:
\* omitted, 8, 16 and others.
ExportSizes == {<<1, 1>>, <<2, 1>>, <<1, 2>>, <<0, 1>>, <<1, 0>>, <<-1, 1>>, <<-1, -1>>}
ExportDpis == {Rat(-1, 1), Zero, Rat(1, 2), Rat(300, 1), Rat(109092170, 1)}
ExportDepths == {<<>>, <<8>>, <<16>>, <<4>>}

\* export(data, options).
DoExport ==
  /\ CanCall
  /\ \E data \in ExportData, size \in ExportSizes, dpi \in ExportDpis,
        depth \in ExportDepths :
     \E options \in {[width |-> size[1], height |-> size[2], dpi |-> dpi,
                       depth |-> depth]} :
       \E out \in {Export(data, options)} :
         /\ last' = [op |-> "export", self |-> 0, args |-> <<data, options>>,
                     threw |-> out.threw,
                     ret |-> IF out.threw THEN <<out.error>> ELSE out.ret]
         /\ before' = [heap |-> heap, objs |-> objs]
         /\ nops' = nops + 1
         /\ UNCHANGED <<heap, objs, mappers>>

\* Options of exportBuffer.  The gamma is given, so that the power is one
\* the model computes.
Pipeline(toneMap, exposure, gamma, format, dpi, onProgress) ==
  [toneMap |-> toneMap, exposure |-> exposure, gamma |-> gamma, format |-> format,
   dpi |-> dpi, onProgress |-> onProgress]

\* Options that export: the algorithms, exposures, gammas and resolutions,
\* the format given or not, with and without a callback.
GoodPipelines ==
  {Pipeline(t, <<>>, g, f, Rat(300, 1), cb) :
     t \in {<<>>, <<"aces">>}, g \in {<<One>>, <<Rat(2, 1)>>}, f \in {<<>>, <<"png">>},
     cb \in BOOLEAN}
    \cup {Pipeline(<<"clamp">>, e, <<One>>, <<>>, dpi, cb) :
            e \in {<<>>, <<1>>}, dpi \in {Rat(725, 10), Rat(109092170, 1)},
            cb \in BOOLEAN}

\* Options that fail: another format, with everything else right or wrong;
\* an unknown algorithm or a gamma that is not positive; a resolution that
\* is not positive.
BadPipelines ==
  {Pipeline(<<"clamp">>, <<>>, g, <<f>>, dpi, cb) :
     g \in {<<>>, <<One>>, <<Zero>>}, f \in {"tiff", "PNG", ""},
     dpi \in {Rat(300, 1), Zero}, cb \in BOOLEAN}
    \cup {Pipeline(t, <<>>, g, <<"png">>, dpi, cb) :
            t \in {<<"bogus">>, <<"clamp">>}, g \in {<<Zero>>, <<Rat(-1, 1)>>},
            dpi \in {Rat(300, 1), Zero}, cb \in BOOLEAN}
    \cup {Pipeline(<<"bogus">>, <<>>, <<One>>, <<>>, Rat(300, 1), cb) : cb \in BOOLEAN}
    \cup {Pipeline(t, <<>>, <<One>>, <<>>, dpi, cb) :
            t \in {<<>>, <<"clamp">>}, dpi \in {Zero, Rat(-1, 1), Rat(-1, 2)},
            cb \in BOOLEAN}

\* exportBuffer(buffer, options): the callback pushes each value it is
\* called with to the caller's array.
DoExportBuffer ==
  /\ CanCall
  /\ \E self \in Selves, options \in GoodPipelines \cup BadPipelines :
     \E out \in {ExportBuffer(objs[self], heap[objs[self].data], options)} :
       /\ last' = [op |-> "exportBuffer", self |-> self, args |-> <<options>>,
                   threw |-> out.threw,
                   ret |-> [error |-> out.error, events |-> out.events,
                            blob |-> out.ret]]
       /\ heap' = [heap EXCEPT ![2].elems = @ \o Reported(out.events)]
       /\ before' = [heap |-> heap, objs |-> objs]
       /\ nops' = nops + 1
       /\ UNCHANGED <<objs, mappers>>

ExportNext ==
  \/ DoExport
  \/ DoExportBuffer

ExportSpec == ExportInit /\ [][ExportNext]_vars

\* ------------------------------------------------------ the exported file
\* The chunks of file from position pos on, each as [type, data]; a chunk
\* that runs past the end of the file ends the list with type <<>>.
RECURSIVE ChunksFrom(_, _)
ChunksFrom(file, pos) ==
  IF pos > Len(file) THEN <<>>
  ELSE IF pos + 11 > Len(file) THEN << [type |-> <<>>, data |-> <<>>] >>
  ELSE LET length == BigEndian(SubSeq(file, pos, pos + 3))[2]
       IN  IF pos + 11 + length > Len(file) THEN << [type |-> <<>>, data |-> <<>>] >>
           ELSE << [type |-> SubSeq(file, pos + 4, pos + 7),
                    data |-> SubSeq(file, pos + 8, pos + 7 + length)] >>
                  \o ChunksFrom(file, pos + 12 + length)

IHDR == <<73, 72, 68, 82>>
PHYS == <<112, 72, 89, 115>>
IDAT == <<73, 68, 65, 84>>
IEND == <<73, 69, 78, 68>>

\* The file the last call returned, and the resolution it was given.
ExportedFile == IF last.op = "export" THEN last.ret.data ELSE last.ret.blob.bytes
ExportedDpi == IF last.op = "export" THEN Arg(2).dpi ELSE Arg(1).dpi

\* The layout of the file: the signature, the header chunk, one resolution
\* chunk, then image data, and IEND last.
LaidOut(file) ==
  LET chunks == ChunksFrom(file, 9)
  IN  /\ SubSeq(file, 1, 8) = <<137, 80, 78, 71, 13, 10, 26, 10>>
      /\ Len(chunks) >= 4
      /\ chunks[1].type = IHDR /\ Len(chunks[1].data) = 13
      /\ chunks[2].type = PHYS /\ Len(chunks[2].data) = 9
      /\ \A k \in 3..Len(chunks) : chunks[k].type # PHYS /\ chunks[k].type # <<>>
      /\ \E k \in 3..Len(chunks) : chunks[k].type = IDAT
      /\ chunks[Len(chunks)].type = IEND

\* C23 as claimed: every file export and exportBuffer return begins with
\* the 8-byte signature and holds, in order, the header chunk, exactly one
\* resolution chunk, and the rest of the encoder's chunks ending in IEND;
\* the resolution chunk comes before the first IDAT and encodes the density
\* round(dpi / 0.0254) on both axes, in metres.
C23_FileLayout ==
  (Returned("export") \/ Returned("exportBuffer")) =>
    /\ LaidOut(ExportedFile)
    /\ LET phys == ChunksFrom(ExportedFile, 9)[2].data
       IN  /\ BigEndian(SubSeq(phys, 1, 4)) = dpiToPixelsPerMeter(ExportedDpi)
           /\ BigEndian(SubSeq(phys, 5, 8)) = dpiToPixelsPerMeter(ExportedDpi)
           /\ phys[9] = 1

\* C24: export fails and produces no file whenever width or height is not
\* positive, dpi is not positive, the data length is not width * height * 4,
\* the depth is neither 8 nor 16, or the class of the array does not match
\* the depth; otherwise it returns the bytes with MIME type 'image/png' and
\* the name 'artwork-<width>x<height>-<dpi>dpi.png'.
C24_ExportValidation ==
  last.op = "export" =>
    LET data == Arg(1)
        o == Arg(2)
        depth == IF o.depth = <<>> THEN 8 ELSE o.depth[1]
        invalid == \/ o.width <= 0 \/ o.height <= 0
                   \/ RLeq(o.dpi, Zero)
                   \/ Len(data.elems) # o.width * o.height * 4
                   \/ depth \notin {8, 16}
                   \/ depth = 8 /\ data.kind # "Uint8Array"
                   \/ depth = 16 /\ data.kind # "Uint16Array"
    IN  IF invalid THEN last.threw /\ Len(last.ret) = 1 /\ heap = before.heap
        ELSE /\ ~last.threw
             /\ SubSeq(last.ret.data, 1, 8) = <<137, 80, 78, 71, 13, 10, 26, 10>>
             /\ last.ret.mimeType = "image/png"
             /\ last.ret.filename
                  = "artwork-" \o ToString(o.width) \o "x" \o ToString(o.height) \o "-"
                      \o NumberToString(o.dpi) \o "dpi.png"
             /\ (o.width = 1 /\ o.height = 1 /\ o.dpi = Rat(300, 1))
                  => last.ret.filename = "artwork-1x1-300dpi.png"
             /\ (o.width = 2 /\ o.height = 1 /\ o.dpi = Rat(1, 2))
                  => last.ret.filename = "artwork-2x1-0.5dpi.png"

\* An export of one pixel at a resolution of 0 failed.
C24_Witness ==
  /\ Raised("export")
  /\ Arg(2).width = 1 /\ Arg(2).height = 1 /\ Arg(2).dpi = Zero /\ Arg(2).depth = <<8>>
  /\ Arg(1) = [kind |-> "Uint8Array", elems |-> <<255, 0, 0, 255>>]
  /\ last.ret = <<"DPI must be positive">>

\* The values the callback of the last call pushed to the caller's array.
Pushed ==
  LET old == before.heap[2].elems
      new == heap[2].elems
  IN  SubSeq(new, Len(old) + 1, Len(new))

\* C25: a successful exportBuffer with a progress callback calls it at
\* least 4 times, with values that never decrease, start at 0 and end at
\* 100: 0 before tone mapping, 50 after it, 90 after the PNG is encoded,
\* 100 after the Blob is made; every call of the callback comes before
\* exportBuffer returns.
C25_ProgressSequence ==
  /\ (Returned("exportBuffer") /\ Arg(1).onProgress) =>
       /\ Len(Pushed) >= 4
       /\ Pushed[1] = 0 /\ Pushed[Len(Pushed)] = 100
       /\ \A k \in 2..Len(Pushed) : Pushed[k - 1] <= Pushed[k]
       /\ heap[2].elems = before.heap[2].elems \o Pushed
       /\ last.ret.events
            = << [kind |-> "progress", value |-> 0], [kind |-> "map", value |-> -1],
                 [kind |-> "progress", value |-> 50], [kind |-> "export", value |-> -1],
                 [kind |-> "progress", value |-> 90], [kind |-> "blob", value |-> -1],
                 [kind |-> "progress", value |-> 100] >>
  /\ last.op # "exportBuffer" => heap[2] = before.heap[2]

\* Two exports with a callback were made, one after the other.
C25_Witness ==
  /\ Returned("exportBuffer")
  /\ Arg(1).onProgress
  /\ heap[2].elems = <<0, 50, 90, 100, 0, 50, 90, 100>>

\* C26: exportBuffer with a format other than 'png' fails with
\* 'Unsupported export format', and the format is validated first: the
\* progress callback is not called, nothing is tone mapped and nothing is
\* encoded before the failure.
C26_FormatValidatedFirst ==
  (last.op = "exportBuffer" /\ Arg(1).format \notin {<<>>, <<"png">>}) =>
    /\ last.threw
    /\ last.ret.error = "Unsupported export format"
    /\ last.ret.events = <<>>
    /\ heap = before.heap

\* An export to TIFF with a callback failed, with a gamma and a resolution
\* that would fail too.
C26_Witness ==
  /\ Raised("exportBuffer")
  /\ Arg(1).format = <<"tiff">>
  /\ Arg(1).onProgress
  /\ Arg(1).gamma = <<Zero>> /\ Arg(1).dpi = Zero

\* C29: when exportBuffer fails at any step (the format, the construction
\* of the tone mapper, the validation of the PNG export), the callback is
\* never called with 100, and the values it was called with before the
\* failure are a prefix of 0, 50, 90.
C29_FailureProgress ==
  Raised("exportBuffer") =>
    /\ \A k \in 1..Len(Pushed) : Pushed[k] # 100
    /\ Len(Pushed) <= 3
    /\ Pushed = SubSeq(<<0, 50, 90>>, 1, Len(Pushed))
    /\ \A k \in 1..Len(last.ret.events) : last.ret.events[k].kind # "blob"

\* An export with a callback failed on its resolution, after tone mapping.
C29_Witness ==
  /\ Raised("exportBuffer")
  /\ Arg(1).onProgress
  /\ Arg(1).dpi = Zero
  /\ last.ret.error = "DPI must be positive"
  /\ Pushed = <<0, 50>>

\* ----------------------------------------------------------------- HDCanvas
\* Calls made on the canvas in one run.
MaxCanvasOps == 4

\* The export functions registered: 1 and 2 resolve with a Blob of their
\* own, 3 rejects.
ExportFns == {1, 2, 3}
CallExportFn(fn) ==
  IF fn = 3 THEN [threw |-> TRUE, ret |-> <<"export failed">>]
  ELSE [threw |-> FALSE, ret |-> [blob |-> fn]]

\* The options export is called with: none, and those of the test.
NoOptions == [toneMap |-> <<>>, exposure |-> <<>>]
CanvasOptions == {<<>>, <<NoOptions>>, << [toneMap |-> <<"reinhard">>, exposure |-> <<Rat(3, 2)>>] >>}

\* The canvas after construction: its buffer, no export function.  The
\* heap holds the calls the export functions received and the calls made on
\* the canvas.
CanvasInit ==
  /\ objs = << [buffer |-> 1, exportFn |-> <<>>] >>
  /\ heap = << [kind |-> "calls", elems |-> <<>>], [kind |-> "history", elems |-> <<>>] >>
  /\ last = NoCall
  /\ before = [heap |-> heap, objs |-> objs]
  /\ nops = 0
  /\ mappers = <<>>

\* A call on the canvas is recorded.
Recorded(h, op, fn) == [h EXCEPT ![2].elems = Append(@, [op |-> op, fn |-> fn])]

\* setExportFn(fn).
DoSetExportFn ==
  /\ nops < MaxCanvasOps
  /\ \E fn \in ExportFns :
       /\ objs' = [objs EXCEPT ![1].exportFn = <<fn>>]
       /\ heap' = Recorded(heap, "setExportFn", fn)
       /\ last' = [op |-> "setExportFn", self |-> 1, args |-> <<fn>>, threw |-> FALSE,
                   ret |-> <<>>]
       /\ before' = [heap |-> heap, objs |-> objs]
       /\ nops' = nops + 1
       /\ UNCHANGED mappers

\* export(options = {}): the outcome, and the calls the export function
\* received.
CanvasExport(canvas, options) ==
  IF canvas.exportFn = <<>>
  THEN [threw |-> TRUE, ret |-> <<"No export function registered">>, calls |-> <<>>]
  ELSE [threw |-> CallExportFn(canvas.exportFn[1]).threw,
        ret |-> CallExportFn(canvas.exportFn[1]).ret,
        calls |-> << [fn |-> canvas.exportFn[1], buffer |-> canvas.buffer,
                      options |-> IF options = <<>> THEN NoOptions ELSE options[1]] >>]

\* export(options); a rejection is handed to the caller, who goes on.
DoCanvasExport ==
  /\ nops < MaxCanvasOps
  /\ \E options \in CanvasOptions :
     \E out \in {CanvasExport(objs[1], options)} :
       /\ heap' = [Recorded(heap, "export", 0) EXCEPT ![1].elems = @ \o out.calls]
       /\ last' = [op |-> "export", self |-> 1, args |-> <<options>>, threw |-> out.threw,
                   ret |-> out.ret]
       /\ before' = [heap |-> heap, objs |-> objs]
       /\ nops' = nops + 1
       /\ UNCHANGED <<objs, mappers>>

\* Fault: destroy leaves the export function.
DestroyedKeeping(canvas) == canvas
\* destroy(), no preview renderer being attached.
Destroyed(canvas) == [canvas EXCEPT !.exportFn = <<>>]

DoDestroy ==
  /\ nops < MaxCanvasOps
  /\ objs' = [objs EXCEPT ![1] = Destroyed(@)]
  /\ heap' = Recorded(heap, "destroy", 0)
  /\ last' = [op |-> "destroy", self |-> 1, args |-> <<>>, threw |-> FALSE, ret |-> <<>>]
  /\ before' = [heap |-> heap, objs |-> objs]
  /\ nops' = nops + 1
  /\ UNCHANGED mappers

CanvasNext ==
  \/ DoSetExportFn
  \/ DoCanvasExport
  \/ DoDestroy

CanvasSpec == CanvasInit /\ [][CanvasNext]_vars

\* The function registered by the calls of history: that of the last
\* setExportFn, unless a destroy came after it.
RECURSIVE RegisteredBy(_)
RegisteredBy(history) ==
  IF history = <<>> THEN <<>>
  ELSE LET e == history[Len(history)]
       IN  IF e.op = "setExportFn" THEN <<e.fn>>
           ELSE IF e.op = "destroy" THEN <<>>
           ELSE RegisteredBy(SubSeq(history, 1, Len(history) - 1))

\* C27: after any sequence of setExportFn, export and destroy, export()
\* rejects with 'No export function registered' exactly when no function
\* was registered since construction or the most recent destroy();
\* otherwise it calls the most recently registered function exactly once,
\* with the canvas's own buffer and the given options, and returns its
\* result.
C27_ExportFn ==
  last.op = "export" =>
    LET fn == RegisteredBy(before.heap[2].elems)
        given == IF Arg(1) = <<>> THEN NoOptions ELSE Arg(1)[1]
    IN  IF fn = <<>>
        THEN /\ last.threw
             /\ last.ret = <<"No export function registered">>
             /\ heap[1] = before.heap[1]
        ELSE /\ heap[1].elems
                  = before.heap[1].elems
                      \o << [fn |-> fn[1], buffer |-> Self.buffer, options |-> given] >>
             /\ last.threw = (fn[1] = 3)
             /\ last.ret = (IF fn[1] = 3 THEN <<"export failed">> ELSE [blob |-> fn[1]])

\* Function 1 was registered, the canvas destroyed, function 2 registered,
\* and export called function 2 with options.
C27_Witness ==
  /\ Returned("export")
  /\ Arg(1) # <<>> /\ Arg(1)[1].toneMap = <<"reinhard">>
  /\ before.heap[2].elems
       = << [op |-> "setExportFn", fn |-> 1], [op |-> "destroy", fn |-> 0],
            [op |-> "setExportFn", fn |-> 2] >>
  /\ last.ret = [blob |-> 2]

\* ----------------------------------------------------------- Canvas2DBridge
\* The tile size: 4096 in the source, scaled down with the buffers, so that
\* a region of a few pixels is tiled.
MAX_TILE_SIZE == 2
\* The longest side of a buffer drawn on.
BridgeDim == 5
\* What the callback paints, in full-canvas coordinates: nothing, a
\* gradient over everything, or a translucent white bar.
Paintings == {"none", "fill", "bar"}

\* The RGBA bytes the callback leaves at (x, y) of a canvas it may paint all
\* over; nothing painted is transparent black.
Painted(painting, x, y) ==
  CASE painting = "fill" -> <<(x * 51) % 256, (y * 85) % 256, 255, 255>>
    [] painting = "bar" -> IF x \in 1..2 /\ y = 1 THEN <<255, 255, 255, 128>>
                           ELSE <<0, 0, 0, 0>>
    [] OTHER -> <<0, 0, 0, 0>>

\* ctx.getImageData(0, 0, tileW, tileH).data after the callback drew on the
\* context translated by (-tileX, -tileY) and clipped to the tile.
TilePixels(painting, tileX, tileY, tileW, tileH) ==
  [i \in 1..(tileW * tileH * 4) |->
     Painted(painting, tileX + (((i - 1) \div 4) % tileW),
             tileY + (((i - 1) \div 4) \div tileW))[((i - 1) % 4) + 1]]

\* rowFloats after the conversion of the row that starts at rowStart.
RowFloats(depth, pixels, rowStart, tileW) ==
  [kind |-> depth,
   elems |-> [i \in 1..(tileW * 4) |->
                ToElem(depth, RMul(Rat(pixels[rowStart + i], 1), Rat(1, 255)))]]

\* The bulk write of one row of a tile.
WriteRow(h, os, self, y, tileX, tileW, floats, mode, blendMode) ==
  IF mode = "overwrite" THEN SetRowUnchecked(h, os, self, y, tileX, tileW, floats).heap
  ELSE BlendRowUnchecked(h, os, self, y, tileX, tileW, floats, blendMode).heap

\* The rows of drawTile from row on.  acc is [heap, tiles, rows]: the heap,
\* the tiles the callback was called for, and the rows written.
RECURSIVE DrawRows(_, _, _, _, _, _, _, _, _, _, _)
DrawRows(acc, os, self, pixels, tileX, tileY, tileW, tileH, mode, blendMode, row) ==
  IF row >= tileH \/ Len(acc.tiles) = 0 THEN acc
  ELSE DrawRows([heap |-> WriteRow(acc.heap, os, self, tileY + row, tileX, tileW,
                                   RowFloats(os[self].depth, pixels, row * tileW * 4, tileW),
                                   mode, blendMode),
                 tiles |-> acc.tiles,
                 rows |-> Append(acc.rows, [y |-> tileY + row, startX |-> tileX,
                                            pixelCount |-> tileW])],
                os, self, pixels, tileX, tileY, tileW, tileH, mode, blendMode, row + 1)

\* drawTile: one call of the callback, then the rows.
drawTile(acc, os, self, painting, tileX, tileY, tileW, tileH, mode, blendMode) ==
  DrawRows([acc EXCEPT !.tiles = Append(@, [x |-> tileX, y |-> tileY, w |-> tileW,
                                            h |-> tileH])],
           os, self, TilePixels(painting, tileX, tileY, tileW, tileH),
           tileX, tileY, tileW, tileH, mode, blendMode, 0)

Min(a, b) == IF a < b THEN a ELSE b

\* Fault: the next tile starts on the last column or row of this one.
NextTileOverlapping(t) == t + MAX_TILE_SIZE - 1
\* tx += MAX_TILE_SIZE.
NextTile(t) == t + MAX_TILE_SIZE

\* The inner loop of drawWith2D from tx on.
RECURSIVE TileColumns(_, _, _, _, _, _, _, _, _, _, _)
TileColumns(acc, os, self, painting, region, ty, tileH, mode, blendMode, rw, tx) ==
  IF tx >= rw \/ Len(acc.rows) < 0 THEN acc
  ELSE TileColumns(drawTile(acc, os, self, painting, region.x + tx, region.y + ty,
                            Min(MAX_TILE_SIZE, rw - tx), tileH, mode, blendMode),
                   os, self, painting, region, ty, tileH, mode, blendMode, rw, NextTile(tx))

\* The outer loop of drawWith2D from ty on.
RECURSIVE TileRows(_, _, _, _, _, _, _, _)
TileRows(acc, os, self, painting, region, mode, blendMode, ty) ==
  IF ty >= region.height \/ Len(acc.rows) < 0 THEN acc
  ELSE TileRows(TileColumns(acc, os, self, painting, region, ty,
                            Min(MAX_TILE_SIZE, region.height - ty), mode, blendMode,
                            region.width, 0),
                os, self, painting, region, mode, blendMode, NextTile(ty))

\* validateRegion: whether it throws.
validateRegion(region, bufferWidth, bufferHeight) ==
  \/ region.x < 0 \/ region.y < 0 \/ region.width <= 0 \/ region.height <= 0
  \/ region.x + region.width > bufferWidth \/ region.y + region.height > bufferHeight

\* drawWith2D from the validation on.
Drawn(h, os, self, painting, region, mode, blendMode) ==
  IF validateRegion(region, os[self].width, os[self].height) THEN Threw(h, os)
  ELSE IF region.width <= MAX_TILE_SIZE /\ region.height <= MAX_TILE_SIZE
       THEN Done(drawTile([heap |-> h, tiles |-> <<>>, rows |-> <<>>], os, self, painting,
                          region.x, region.y, region.width, region.height, mode,
                          blendMode),
                 os, <<>>)
       ELSE Done(TileRows([heap |-> h, tiles |-> <<>>, rows |-> <<>>], os, self, painting,
                          region, mode, blendMode, 0),
                 os, <<>>)

\* drawWith2D(buffer, callback, options): options is [mode, blendMode,
\* region], each <<>> when omitted.  The heap of the outcome is the record
\* [heap, tiles, rows] of the run.
drawWith2D(h, os, self, painting, options) ==
  Drawn(h, os, self, painting,
        IF options.region = <<>>
        THEN [x |-> 0, y |-> 0, width |-> os[self].width, height |-> os[self].height]
        ELSE options.region[1],
        IF options.mode = <<>> THEN "overwrite" ELSE options.mode[1],
        IF options.blendMode = <<>> THEN "normal" ELSE options.blendMode[1])

\* The buffers drawn on: wide, tall, of one tile, of one pixel.
BridgeSizes == {<<BridgeDim, 3>>, <<3, BridgeDim>>, <<2, 2>>, <<1, 1>>}

BridgeInit ==
  \E size \in BridgeSizes, depth \in {32, 64} :
    /\ objs = << [width |-> size[1], height |-> size[2], depth |-> depth, data |-> 1] >>
    /\ heap = << PatternArray(size[1], size[2], depth) >>
    /\ last = NoCall
    /\ before = [heap |-> heap, objs |-> objs]
    /\ nops = 0
    /\ mappers = <<>>

\* The regions given: inside the buffer, past its edges, with a negative
\* origin, empty and negative.
BridgeRegions(o) ==
  {[x |-> x, y |-> y, width |-> w, height |-> hh] :
     x \in -1..(o.width - 1), y \in -1..(o.height - 1), w \in -1..(o.width + 1),
     hh \in -1..(o.height + 1)}

\* The ways to combine with the buffer: omitted, overwrite, blend.
BridgeModes ==
  {[mode |-> <<>>, blendMode |-> <<>>], [mode |-> <<"overwrite">>, blendMode |-> <<>>],
   [mode |-> <<"blend">>, blendMode |-> <<>>], [mode |-> <<"blend">>, blendMode |-> <<"add">>]}

\* One drawWith2D on the buffer as it was built.
DoDrawWith2D ==
  /\ nops = 0
  /\ \E self \in Selves, painting \in Paintings, m \in BridgeModes :
     \E region \in {<<>>} \cup {<<r>> : r \in BridgeRegions(objs[self])} :
     \E options \in {[mode |-> m.mode, blendMode |-> m.blendMode, region |-> region]} :
     \E out \in {drawWith2D(heap, objs, self, painting, options)} :
       /\ heap' = IF out.threw THEN out.heap ELSE out.heap.heap
       /\ last' = [op |-> "drawWith2D", self |-> self, args |-> <<painting, options>>,
                   threw |-> out.threw,
                   ret |-> IF out.threw THEN [tiles |-> <<>>, rows |-> <<>>]
                           ELSE [tiles |-> out.heap.tiles, rows |-> out.heap.rows]]
       /\ before' = [heap |-> heap, objs |-> objs]
       /\ nops' = nops + 1
       /\ UNCHANGED <<objs, mappers>>

BridgeNext == DoDrawWith2D

BridgeSpec == BridgeInit /\ [][BridgeNext]_vars

\* The region the last drawWith2D was given: the whole buffer when omitted.
GivenRegion ==
  IF Arg(2).region = <<>>
  THEN [x |-> 0, y |-> 0, width |-> Self.width, height |-> Self.height]
  ELSE Arg(2).region[1]

\* a / b rounded up.
Ceil(a, b) == (a + b - 1) \div b

\* Whether pixel (x, y) lies in the rectangle at (rx, ry) of rw x rh.
Within(x, y, rx, ry, rw, rh) == x >= rx /\ x < rx + rw /\ y >= ry /\ y < ry + rh

MaxPreviewOps == 3

\* Math.min and Math.max.
RMin(a, b) == IF RLeq(a, b) THEN a ELSE b
RMax(a, b) == IF RLeq(a, b) THEN b ELSE a

\* calculateFit(...).scale, for the positive dimensions it is called with.
calculateFit(sourceWidth, sourceHeight, containerWidth, containerHeight, mode) ==
  IF mode = "contain"
  THEN RMin(Rat(containerWidth, sourceWidth), Rat(containerHeight, sourceHeight))
  ELSE RMax(Rat(containerWidth, sourceWidth), Rat(containerHeight, sourceHeight))

\* The renderer p after recomputeFitScale(): a container without area
\* leaves fitScale as it was.
recomputeFitScale(p) ==
  IF p.containerW <= 0 \/ p.containerH <= 0 THEN p
  ELSE [p EXCEPT !.fitScale = calculateFit(p.bufW, p.bufH, p.containerW, p.containerH,
                                           p.fitMode)]

\* One axis of clampViewport(): the pan for a buffer side of buf pixels of
\* which visible are on screen.
ClampedPan(buf, visible, pan) ==
  IF RLeq(Rat(buf, 1), visible) THEN Zero
  ELSE RMax(Zero, RMin(RSub(Rat(buf, 1), visible), pan))

\* The renderer p after clampViewport().
clampViewport(p) ==
  [p EXCEPT !.panX = ClampedPan(p.bufW, RDiv(Rat(p.containerW, 1), p.zoom), p.panX),
            !.panY = ClampedPan(p.bufH, RDiv(Rat(p.containerH, 1), p.zoom), p.panY)]

\* The renderer p after applyZoom(newZoom, cx, cy) with the centre given.
ZoomedAbout(p, clamped, cx, cy) ==
  clampViewport([p EXCEPT
                   !.zoom = clamped,
                   !.panX = RSub(RAdd(p.panX, RDiv(cx, p.zoom)), RDiv(cx, clamped)),
                   !.panY = RSub(RAdd(p.panY, RDiv(cy, p.zoom)), RDiv(cy, clamped))])

\* The zoom applyZoom settles on.
ClampedZoom(p, newZoom) == RMax(p.fitScale, RMin(p.maxZoom, newZoom))

\* The renderer p after applyZoom(newZoom, screenCenterX, screenCenterY);
\* center is <<>> when the centre is omitted, the middle of the container.
applyZoom(p, newZoom, center) ==
  IF ClampedZoom(p, newZoom) = p.zoom THEN p
  ELSE ZoomedAbout(p, ClampedZoom(p, newZoom),
                   IF center = <<>> THEN Rat(p.containerW, 2) ELSE Rat(center[1][1], 1),
                   IF center = <<>> THEN Rat(p.containerH, 2) ELSE Rat(center[1][2], 1))

\* this.viewport.zoom = this.fitScale
AtFit(p) == [p EXCEPT !.zoom = p.fitScale]

\* The renderer p after fitToView().
fitToView(p) == [AtFit(recomputeFitScale(p)) EXCEPT !.panX = Zero, !.panY = Zero]

\* The renderer the constructor leaves for a buffer and a container; the
\* canvas fills the container from its top left corner.
NewPreview(bufW, bufH, containerW, containerH, fitMode, maxZoom) ==
  AtFit(recomputeFitScale(
             [bufW |-> bufW, bufH |-> bufH, containerW |-> containerW,
              containerH |-> containerH,
              fitMode |-> IF fitMode = <<>> THEN "contain" ELSE fitMode[1],
              maxZoom |-> IF maxZoom = <<>> THEN Rat(4, 1) ELSE maxZoom[1],
              fitScale |-> One, zoom |-> Zero, panX |-> Zero, panY |-> Zero,
              dragging |-> FALSE, dragStartX |-> 0, dragStartY |-> 0,
              dragStartPanX |-> Zero, dragStartPanY |-> Zero]))

\* Buffers previewed, containers they are shown in (one without area), and
\* the points of the screen events happen at.
PreviewBuffers == {<<8, 8>>, <<2, 2>>}
PreviewContainers == {<<4, 2>>, <<16, 16>>, <<0, 0>>}
PreviewPoints == {<<0, 0>>, <<3, 1>>, <<-4, -4>>}
PreviewZooms == {Rat(1, 10), One, Rat(3, 1), Rat(10, 1)}

PreviewInit ==
  \E buf \in PreviewBuffers, cont \in PreviewContainers, fitMode \in {<<>>, <<"cover">>},
     maxZoom \in {<<>>, <<Rat(2, 1)>>} :
    /\ objs = << NewPreview(buf[1], buf[2], cont[1], cont[2], fitMode, maxZoom) >>
    /\ heap = <<>>
    /\ last = NoCall
    /\ before = [heap |-> heap, objs |-> objs]
    /\ nops = 0
    /\ mappers = <<>>

\* The event op with args took the renderer to p.
Handled(op, args, p) ==
  /\ objs' = <<p>>
  /\ last' = [op |-> op, self |-> 1, args |-> args, threw |-> FALSE, ret |-> <<>>]
  /\ before' = [heap |-> heap, objs |-> objs]
  /\ nops' = nops + 1
  /\ UNCHANGED <<heap, mappers>>

\* setZoom(zoom, centerX?, centerY?)
DoSetZoom ==
  /\ nops < MaxPreviewOps
  /\ \E zoom \in PreviewZooms, center \in {<<>>} \cup {<<c>> : c \in PreviewPoints} :
      Handled("setZoom", <<zoom, center>>, applyZoom(objs[1], zoom, center))

\* onWheel: 1.1 is taken as 11/10; the clamp that follows is the same for
\* the double next to it.
DoWheel ==
  /\ nops < MaxPreviewOps
  /\ \E deltaY \in {-1, 1}, cursor \in PreviewPoints :
      Handled("wheel", <<deltaY, cursor>>,
              applyZoom(objs[1],
                        RMul(objs[1].zoom,
                             IF deltaY < 0 THEN Rat(11, 10) ELSE RDiv(One, Rat(11, 10))),
                        <<cursor>>))

\* onKeyDown
DoKeyDown ==
  /\ nops < MaxPreviewOps
  /\ \E key \in {"+", "=", "-", "0", "a"} :
      Handled("keydown", <<key>>,
              CASE key \in {"+", "="} ->
                     applyZoom(objs[1], RMul(objs[1].zoom, Rat(5, 4)), <<>>)
                [] key = "-" -> applyZoom(objs[1], RDiv(objs[1].zoom, Rat(5, 4)), <<>>)
                [] key = "0" -> fitToView(objs[1])
                [] OTHER -> objs[1])

\* onDblClick
DoDblClick ==
  /\ nops < MaxPreviewOps
  /\ Handled("dblclick", <<>>, fitToView(objs[1]))

\* onMouseDown: the left button on a zoomed view starts a drag.
DoMouseDown ==
  /\ nops < MaxPreviewOps
  /\ \E button \in {0, 2}, at \in PreviewPoints :
      Handled("mousedown", <<button, at>>,
              IF button # 0 \/ ~RLess(RMul(objs[1].fitScale, Rat(101, 100)), objs[1].zoom)
              THEN objs[1]
              ELSE [objs[1] EXCEPT !.dragging = TRUE, !.dragStartX = at[1],
                                   !.dragStartY = at[2], !.dragStartPanX = objs[1].panX,
                                   !.dragStartPanY = objs[1].panY])

\* onMouseMove
DoMouseMove ==
  /\ nops < MaxPreviewOps
  /\ \E at \in PreviewPoints :
      Handled("mousemove", <<at>>,
              IF ~objs[1].dragging THEN objs[1]
              ELSE clampViewport(
                     [objs[1] EXCEPT
                        !.panX = RSub(objs[1].dragStartPanX,
                                      RDiv(Rat(at[1] - objs[1].dragStartX, 1), objs[1].zoom)),
                        !.panY = RSub(objs[1].dragStartPanY,
                                      RDiv(Rat(at[2] - objs[1].dragStartY, 1), objs[1].zoom))]))

\* onMouseUp
DoMouseUp ==
  /\ nops < MaxPreviewOps
  /\ Handled("mouseup", <<>>, [objs[1] EXCEPT !.dragging = FALSE])

\* The container takes another size and the ResizeObserver callback runs.
DoResize ==
  /\ nops < MaxPreviewOps
  /\ \E cont \in PreviewContainers :
      /\ cont # <<objs[1].containerW, objs[1].containerH>>
      /\ Handled("resize", <<cont>>,
                 clampViewport(recomputeFitScale([objs[1] EXCEPT !.containerW = cont[1],
                                                                 !.containerH = cont[2]])))

PreviewNext ==
  \/ DoSetZoom
  \/ DoWheel
  \/ DoKeyDown
  \/ DoDblClick
  \/ DoMouseDown
  \/ DoMouseMove
  \/ DoMouseUp
  \/ DoResize

PreviewSpec == PreviewInit /\ [][PreviewNext]_vars

\* The renderer.
Preview == objs[1]

\* The pan along one axis is 0 when the whole side of the buffer is
\* visible, and otherwise between 0 and what is left of the side.
PanInRange(buf, container, zoom, pan) ==
  IF RLeq(Rat(buf, 1), RDiv(Rat(container, 1), zoom)) THEN pan = Zero
  ELSE RLeq(Zero, pan) /\ RLeq(pan, RSub(Rat(buf, 1), RDiv(Rat(container, 1), zoom)))

\* C30: in every state of a PreviewRenderer, after any setZoom, wheel, key,
\* double-click, drag and container-resize events, fitScale <= zoom <=
\* maxZoom, and each pan offset is 0 when the whole side of the buffer is
\* visible and otherwise within 0 .. side - container / zoom.
C30_ZoomPanInvariant ==
  /\ RLeq(Preview.fitScale, Preview.zoom)
  /\ RLeq(Preview.zoom, Preview.maxZoom)
  /\ PanInRange(Preview.bufW, Preview.containerW, Preview.zoom, Preview.panX)
  /\ PanInRange(Preview.bufH, Preview.containerH, Preview.zoom, Preview.panY)

====
